---- MODULE Spec2Model ----
(***************************************************************************)
(* A model of the CMOS mission runtime (context/mission_runtime.py) and of *)
(* the SQLite client it writes through (context/db_client.py).             *)
(*                                                                         *)
(* The store is the four tables the lifecycle touches: missions,           *)
(* session_events, contexts and context_snapshots.  A JSON object is a     *)
(* function from its keys to its values (Python dict equality), None and   *)
(* SQL NULL are Null where the column holds text and <<>> where it holds a *)
(* timestamp, and a text that the code searches by substring is the        *)
(* sequence of its characters.                                             *)
(***************************************************************************)
EXTENDS Integers, Sequences, FiniteSets, TLC

VARIABLES
    missions,           \* table missions, in rowid order
    session_events,     \* table session_events, in insertion order
    contexts,           \* table contexts: context id -> row
    context_snapshots,  \* table context_snapshots, in insertion order
    now,                \* the wall clock, in whole seconds (utc_now)
    budget,             \* calls the run may still make
    ticks,              \* seconds the clock may still advance
    faults,             \* store errors the run may still meet
    last,               \* what the last call was and what it returned
    files,              \* the flat files of the workspace a migration writes to
    mission_dependencies \* table mission_dependencies, in rowid order

store == <<missions, session_events, contexts, context_snapshots>>
vars == <<missions, session_events, contexts, context_snapshots, now, budget, ticks, faults, last,
          files, mission_dependencies>>

\* ------------------------------------------------------------------ bounds
MaxOps == 3
MaxHistoryOps == 2
MaxStoreOps == 3
MaxTicks == 1
MaxFaults == 1
MaxBacklogOps == 1
MaxFaultOps == 2
MaxMergeOps == 1
MaxMigrateOps == 2
MaxSuppliedOps == 2
MaxEntries == 2
MaxLines == 2
MaxMainOps == 1
MaxDependsOps == 3

\* --------------------------------------------------------- program constants
HistoryCap == 50
SizeLimitKb == 100

\* ------------------------------------------------------------------ values
Null == "null"
NoTime == <<>>
EmptyDict == [k \in {} |-> k]

Get(d, k, default) == IF k \in DOMAIN d THEN d[k] ELSE default
Put(d, k, v) == [x \in (DOMAIN d) \cup {k} |-> IF x = k THEN v ELSE d[x]]
Pop(d, k) == [x \in (DOMAIN d) \ {k} |-> d[x]]

SeqContains(s, v) == \E i \in 1..Len(s) : s[i] = v
\* An append without the membership test.
AppendAlways(s, v) == Append(s, v)

\* if v not in s: s.append(v)
AppendNew(s, v) == IF SeqContains(s, v) THEN s ELSE Append(s, v)

\* Python's "needle in text" on strings.
IsSubstring(needle, text) ==
    \E i \in 0..(Len(text) - Len(needle)) :
        \A j \in 1..Len(needle) : text[i + j] = needle[j]

\* The characters of the strings that end up inside notes.
Chars ==
    [M1 |-> <<"M", "1">>, M12 |-> <<"M", "1", "2">>, M2 |-> <<"M", "2">>,
     MX |-> <<"M", "X">>,
     r1 |-> <<"r", "1">>, n1 |-> <<"n", "1">>]

SeededIds == <<"M1", "M12", "M2">>
UnknownId == "MX"
CallIds == {SeededIds[i] : i \in 1..Len(SeededIds)} \cup {UnknownId}
Agents == {"codex"}
Summaries == {"work"}
Reasons == {"r1"}
NeedLists == {<<>>, <<"n1">>}
ContextIds == {"project_context", "master_context"}

\* ------------------------------------------------------------- JSON texts
\* The keys a context document can carry at its top level, in sorted order.
KeyOrder ==
    <<"constraints", "context_health", "metadata", "next_session_context", "note", "project",
      "technical_context", "working_memory">>

\* json.dumps: the text is the list of the object's members; indent and
\* sort_keys are the two formats the client writes.  The member order of an
\* unsorted dump (the dict's insertion order) is not modelled: a dict is a
\* function, so both formats list the members in key order.
JsonDumps(payload, indent, sort_keys) ==
    LET keys == SelectSeq(KeyOrder, LAMBDA k : k \in DOMAIN payload)
    IN  [indent |-> indent,
         sort_keys |-> sort_keys,
         members |-> [i \in 1..Len(keys) |-> <<keys[i], payload[keys[i]]>>]]

\* json.loads of a text that json.dumps produced.
JsonLoads(text) ==
    LET m == text.members
    IN  [k \in {m[i][1] : i \in 1..Len(m)} |->
            LET i == CHOOSE j \in 1..Len(m) : m[j][1] = k IN m[i][2]]

canonical_json(payload) == JsonDumps(payload, 0, TRUE)
PrettyJson(payload) == JsonDumps(payload, 2, FALSE)

\* hashlib.sha256(...).hexdigest(): equal texts have equal digests, and no two
\* texts of the model collide.
Sha256(text) == <<"sha256", text.members>>

\* ------------------------------------------------------- SQLiteClient (store)
\* The database as one value, so that a transaction can be rolled back.
Db(m, e, c, s) == [missions |-> m, session_events |-> e, contexts |-> c, context_snapshots |-> s]
CurrentDb == Db(missions, session_events, contexts, context_snapshots)

\* SELECT content FROM contexts WHERE id = :id, then json.loads.
get_context(db, context_id) ==
    IF context_id \in DOMAIN db.contexts
    THEN [found |-> TRUE, payload |-> JsonLoads(db.contexts[context_id].content)]
    ELSE [found |-> FALSE, payload |-> EmptyDict]

\* SELECT content_hash FROM context_snapshots WHERE context_id = :id
\* ORDER BY created_at DESC LIMIT 1: the rowids the query can return.  Nothing
\* orders rows of equal created_at, so any of them can come first (the oldest
\* of them on a table scan, the newest on an index scan).
LatestSnapshots(rows, context_id) ==
    LET mine == {i \in 1..Len(rows) : rows[i].context_id = context_id}
    IN  {i \in mine : \A j \in mine : rows[j].created_at <= rows[i].created_at}

\* A gate that never finds the payload unchanged.
GateNeverSkips(rows, context_id, digest) == {FALSE}

\* The hash gate of add_context_snapshot, "last and last.content_hash ==
\* digest": the values the comparison can take.
GateOutcomes(rows, context_id, digest) ==
    IF LatestSnapshots(rows, context_id) = {} THEN {FALSE}
    ELSE {rows[i].content_hash = digest : i \in LatestSnapshots(rows, context_id)}

Digest(payload) == Sha256(canonical_json(payload))

\* add_context_snapshot, given what its hash gate found.
add_context_snapshot(db, context_id, payload, session_id, source, created_at, unchanged) ==
    IF unchanged
    THEN [db |-> db, appended |-> FALSE]
    ELSE [db |-> [db EXCEPT !.context_snapshots =
                    Append(@, [context_id |-> context_id,
                               session_id |-> session_id,
                               source |-> source,
                               content_hash |-> Digest(payload),
                               content |-> PrettyJson(payload),
                               created_at |-> created_at])],
          appended |-> TRUE]

\* INSERT OR REPLACE INTO contexts: the current pointer of set_context.
WriteContextRow(db, context_id, payload, resolved_source, timestamp) ==
    [db EXCEPT !.contexts =
        Put(@, context_id, [source_path |-> resolved_source,
                            content |-> PrettyJson(payload),
                            updated_at |-> timestamp])]

\* A set_context that leaves the pointer alone when the hash gate skips.
set_context_gated(db, context_id, payload, source_path, session_id, snapshot, snapshot_source, timestamp, unchanged) ==
    LET resolved_source ==
            IF source_path # Null THEN source_path
            ELSE IF context_id \in DOMAIN db.contexts
                 THEN db.contexts[context_id].source_path ELSE ""
        pointed == IF snapshot /\ unchanged THEN db
                   ELSE WriteContextRow(db, context_id, payload, resolved_source, timestamp)
        snap == add_context_snapshot(pointed, context_id, payload, session_id,
                    IF snapshot_source # Null /\ snapshot_source # "" THEN snapshot_source
                    ELSE resolved_source,
                    timestamp, unchanged)
    IN  IF snapshot
        THEN [writes |-> <<pointed, snap.db>>, appended |-> snap.appended]
        ELSE [writes |-> <<pointed>>, appended |-> FALSE]

\* set_context: the stores after its first and after its second statement, and
\* what add_context_snapshot returned.  source_path None is Null.
set_context(db, context_id, payload, source_path, session_id, snapshot, snapshot_source, timestamp, unchanged) ==
    LET resolved_source ==
            IF source_path # Null THEN source_path
            ELSE IF context_id \in DOMAIN db.contexts
                 THEN db.contexts[context_id].source_path ELSE ""
        pointed == WriteContextRow(db, context_id, payload, resolved_source, timestamp)
        snap == add_context_snapshot(pointed, context_id, payload, session_id,
                    IF snapshot_source # Null /\ snapshot_source # "" THEN snapshot_source
                    ELSE resolved_source,
                    timestamp, unchanged)
    IN  IF snapshot
        THEN [writes |-> <<pointed, snap.db>>, appended |-> snap.appended]
        ELSE [writes |-> <<pointed>>, appended |-> FALSE]

\* A rollback that keeps what the transaction had written.
RollbackKeepsWrites(before, partial) == partial

\* conn.rollback(): the store as it was at BEGIN.
Rollback(before, partial) == before

\* with client.transaction(): the statements of the body run in order; writes
\* is the store after each of them.  failAt = Len(writes) is a body that ran to
\* its end and committed; a smaller failAt is an error raised after that many
\* writes, which rolls back.
Transaction(before, writes, failAt) ==
    IF failAt >= Len(writes)
    THEN [ok |-> TRUE, db |-> IF writes = <<>> THEN before ELSE writes[Len(writes)],
          dirty |-> FALSE]
    ELSE [ok |-> FALSE,
          db |-> Rollback(before, IF failAt = 0 THEN before ELSE writes[failAt]),
          dirty |-> failAt > 0]

\* ------------------------------------------------- mission_runtime helpers
\* The metadata column holds NULL, the text of a JSON object, or any other text.
NullColumn == [kind |-> "null"]
JsonColumn(obj) == [kind |-> "json", obj |-> obj]
BadColumn == [kind |-> "text"]

parse_metadata(column) == IF column.kind = "json" THEN column.obj ELSE EmptyDict
format_metadata(metadata) == IF metadata = EmptyDict THEN NullColumn ELSE JsonColumn(metadata)

\* ts = ts or utc_now()
TsOrNow(ts, clock) == IF ts = NoTime THEN clock ELSE ts[1]

MissionRow(db, mission_id) ==
    LET hits == {i \in 1..Len(db.missions) : db.missions[i].id = mission_id}
    IN  IF hits = {} THEN 0 ELSE CHOOSE i \in hits : TRUE

\* The "if not row: raise MissionRuntimeError" guard of the three handlers.
MissionFound(db, mission_id) == MissionRow(db, mission_id) # 0

\* An UPDATE without its WHERE clause.
UpdateEveryMission(db, mission_id, assignments) ==
    [db EXCEPT !.missions =
        [i \in 1..Len(@) |->
            [column \in DOMAIN @[i] |->
                IF column \in DOMAIN assignments THEN assignments[column]
                ELSE @[i][column]]]]

\* UPDATE missions SET ... WHERE id = :id
UpdateMission(db, mission_id, assignments) ==
    [db EXCEPT !.missions =
        [i \in 1..Len(@) |->
            IF @[i].id = mission_id
            THEN [column \in DOMAIN @[i] |->
                    IF column \in DOMAIN assignments THEN assignments[column]
                    ELSE @[i][column]]
            ELSE @[i]]]

load_context(db, context_id) == get_context(db, context_id).payload

\* A trim that keeps the oldest entries: del history[50:].
TrimHistoryTail(history) ==
    IF Len(history) > HistoryCap THEN SubSeq(history, 1, HistoryCap) ELSE history

\* del history[:-50]
TrimHistory(history) ==
    IF Len(history) > HistoryCap
    THEN SubSeq(history, Len(history) - HistoryCap + 1, Len(history))
    ELSE history

IsDictItem(item) == "mission" \in DOMAIN item

\* list.remove: the first occurrence only.
RemoveFirst(s, v) ==
    IF ~SeqContains(s, v) THEN s
    ELSE LET i == CHOOSE j \in 1..Len(s) : s[j] = v /\ \A k \in 1..(j - 1) : s[k] # v
         IN  SubSeq(s, 1, i - 1) \o SubSeq(s, i + 1, Len(s))

\* A working-memory update whose "complete" branch leaves active_mission alone.
touch_working_memory_keeps_active(payload, mission_id, ts, agent, summary, action, next_mission) ==
    LET working0 == Get(payload, "working_memory", EmptyDict)
        entry == [mission |-> mission_id, agent |-> agent, summary |-> summary,
                  action |-> action, ts |-> ts]
        history == TrimHistory(Append(
                      SelectSeq(Get(working0, "session_history", <<>>), IsDictItem), entry))
        w1 == Put(working0, "session_history", history)
        w2 == Put(w1, "last_session", ts)
        w3 == Put(w2, "session_count", Get(working0, "session_count", 0) + 1)
        w4 == IF action = "start" THEN Put(w3, "active_mission", mission_id)
              ELSE IF action = "complete"
                   THEN Put(w3, "last_completed_mission", mission_id)
              ELSE IF action = "blocked"
                   THEN Put(Put(w3, "active_mission", Null),
                            "last_blocked_mission", mission_id)
              ELSE w3
        blocked == Get(w4, "blocked_missions", <<>>)
        w5 == Put(w4, "blocked_missions",
                  IF action = "blocked" THEN AppendNew(blocked, mission_id)
                  ELSE RemoveFirst(blocked, mission_id))
    IN  Put(payload, "working_memory", w5)

\* _touch_working_memory
touch_working_memory(payload, mission_id, ts, agent, summary, action, next_mission) ==
    LET working0 == Get(payload, "working_memory", EmptyDict)
        entry == [mission |-> mission_id, agent |-> agent, summary |-> summary,
                  action |-> action, ts |-> ts]
        history == TrimHistory(Append(
                      SelectSeq(Get(working0, "session_history", <<>>), IsDictItem), entry))
        w1 == Put(working0, "session_history", history)
        w2 == Put(w1, "last_session", ts)
        w3 == Put(w2, "session_count", Get(working0, "session_count", 0) + 1)
        w4 == IF action = "start" THEN Put(w3, "active_mission", mission_id)
              ELSE IF action = "complete"
                   THEN Put(Put(w3, "active_mission", next_mission),
                            "last_completed_mission", mission_id)
              ELSE IF action = "blocked"
                   THEN Put(Put(w3, "active_mission", Null),
                            "last_blocked_mission", mission_id)
              ELSE w3
        blocked == Get(w4, "blocked_missions", <<>>)
        w5 == Put(w4, "blocked_missions",
                  IF action = "blocked" THEN AppendNew(blocked, mission_id)
                  ELSE RemoveFirst(blocked, mission_id))
    IN  Put(payload, "working_memory", w5)

\* The texts of the follow-up notes.
ReminderText(mission_id, reason) == Chars[mission_id] \o <<":", " ">> \o Chars[reason]
NeedText(mission_id, need) == Chars[mission_id] \o <<" ", "-", ">", " ">> \o Chars[need]
PickUpText(mission_id) == <<"P", "i", "c", "k", " ", "u", "p", " ">> \o Chars[mission_id]

\* mission_id in json.dumps(item)
Mentions(item, mission_id) == IsSubstring(Chars[mission_id], item)

\* next_session[key] = updated if updated else next_session.pop(key)
PutOrPop(d, k, list) == IF list = <<>> THEN Pop(d, k) ELSE Put(d, k, list)

\* A _remove_blocker that filters the notes and leaves the blockers list alone.
remove_blocker_notes_only(next_session, mission_id) ==
    LET n2 == IF "important_reminders" \in DOMAIN next_session
              THEN PutOrPop(next_session, "important_reminders",
                       SelectSeq(next_session.important_reminders,
                                 LAMBDA item : ~Mentions(item, mission_id)))
              ELSE next_session
    IN  IF "when_we_resume" \in DOMAIN n2
        THEN PutOrPop(n2, "when_we_resume",
                 SelectSeq(n2.when_we_resume, LAMBDA item : ~Mentions(item, mission_id)))
        ELSE n2

\* A _remove_blocker that drops the blocker entry and leaves the notes alone.
remove_blocker_keeps_notes(next_session, mission_id) ==
    PutOrPop(next_session, "blockers",
             SelectSeq(Get(next_session, "blockers", <<>>),
                       LAMBDA item : item.mission # mission_id))

\* _remove_blocker
remove_blocker(next_session, mission_id) ==
    LET filtered == SelectSeq(Get(next_session, "blockers", <<>>),
                              LAMBDA item : item.mission # mission_id)
        n1 == PutOrPop(next_session, "blockers", filtered)
        n2 == IF "important_reminders" \in DOMAIN n1
              THEN PutOrPop(n1, "important_reminders",
                       SelectSeq(n1.important_reminders,
                                 LAMBDA item : ~Mentions(item, mission_id)))
              ELSE n1
    IN  IF "when_we_resume" \in DOMAIN n2
        THEN PutOrPop(n2, "when_we_resume",
                 SelectSeq(n2.when_we_resume, LAMBDA item : ~Mentions(item, mission_id)))
        ELSE n2

RECURSIVE AppendNeeds(_, _, _)
AppendNeeds(resume, mission_id, needs) ==
    IF needs = <<>> THEN resume
    ELSE AppendNeeds(AppendNew(resume, NeedText(mission_id, Head(needs))),
                     mission_id, Tail(needs))

\* A _record_blocker that appends without dropping the mission's old entry.
record_blocker_appends(next_session, mission_id, ts, summary, reason, needs) ==
    LET blockers == Append(
                Get(next_session, "blockers", <<>>),
                [mission |-> mission_id, recorded_at |-> ts, summary |-> summary,
                 reason |-> reason, needs |-> needs])
        n1 == Put(next_session, "blockers", blockers)
        n2 == Put(n1, "important_reminders",
                  AppendNew(Get(n1, "important_reminders", <<>>),
                            ReminderText(mission_id, reason)))
    IN  IF needs # <<>>
        THEN Put(n2, "when_we_resume",
                 AppendNeeds(Get(n2, "when_we_resume", <<>>), mission_id, needs))
        ELSE n2

record_blocker(next_session, mission_id, ts, summary, reason, needs) ==
    LET blockers == Append(
                SelectSeq(Get(next_session, "blockers", <<>>),
                          LAMBDA item : item.mission # mission_id),
                [mission |-> mission_id, recorded_at |-> ts, summary |-> summary,
                 reason |-> reason, needs |-> needs])
        n1 == Put(next_session, "blockers", blockers)
        n2 == Put(n1, "important_reminders",
                  AppendNew(Get(n1, "important_reminders", <<>>),
                            ReminderText(mission_id, reason)))
    IN  IF needs # <<>>
        THEN Put(n2, "when_we_resume",
                 AppendNeeds(Get(n2, "when_we_resume", <<>>), mission_id, needs))
        ELSE n2

RECURSIVE SumLen(_)
SumLen(notes) == IF notes = <<>> THEN 0 ELSE Len(Head(notes)) + 4 + SumLen(Tail(notes))

\* len(json.dumps(payload).encode("utf-8")), to the byte counts of the members
\* this model's documents hold (a session entry is about 96 bytes, a blocker
\* about 120, a key with a scalar about 24).
JsonLen(payload) ==
    LET working == Get(payload, "working_memory", EmptyDict)
        nextSession == Get(payload, "next_session_context", EmptyDict)
        health == Get(payload, "context_health", EmptyDict)
    IN  2 + 24 * Cardinality(DOMAIN payload)
          + 24 * Cardinality(DOMAIN working)
          + 96 * Len(Get(working, "session_history", <<>>))
          + 6 * Len(Get(working, "blocked_missions", <<>>))
          + 24 * Cardinality(DOMAIN nextSession)
          + 120 * Len(Get(nextSession, "blockers", <<>>))
          + SumLen(Get(nextSession, "important_reminders", <<>>))
          + SumLen(Get(nextSession, "when_we_resume", <<>>))
          + 24 * Cardinality(DOMAIN health)

\* round(bytes / 1024, 2), in hundredths of a KB.
SizeKb(bytes) == (bytes * 100 + 512) \div 1024

\* A health update that restarts the counter at every call.
update_context_health_restarts(payload, ts, increment_sessions) ==
    LET health0 == Get(payload, "context_health", EmptyDict)
        h1 == IF increment_sessions THEN Put(health0, "sessions_since_reset", 1)
              ELSE health0
        h2 == Put(h1, "last_update", ts)
        h3 == Put(h2, "size_kb", SizeKb(JsonLen(Put(payload, "context_health", h2))))
        h4 == IF "size_limit_kb" \in DOMAIN h3 THEN h3
              ELSE Put(h3, "size_limit_kb", SizeLimitKb)
    IN  Put(payload, "context_health", h4)

update_context_health(payload, ts, increment_sessions) ==
    LET health0 == Get(payload, "context_health", EmptyDict)
        h1 == IF increment_sessions
              THEN Put(health0, "sessions_since_reset",
                       Get(health0, "sessions_since_reset", 0) + 1)
              ELSE health0
        h2 == Put(h1, "last_update", ts)
        h3 == Put(h2, "size_kb", SizeKb(JsonLen(Put(payload, "context_health", h2))))
        h4 == IF "size_limit_kb" \in DOMAIN h3 THEN h3
              ELSE Put(h3, "size_limit_kb", SizeLimitKb)
    IN  Put(payload, "context_health", h4)

\* master_context.setdefault("next_session_context", {}) and an update of it.
NextSessionOf(master) == Get(master, "next_session_context", EmptyDict)
WithNextSession(master, next_session) == Put(master, "next_session_context", next_session)

\* A persist that writes the project context and leaves the master as stored.
persist_project_only(db, project, master, session_id, timestamp) ==
    {set_context(db, "project_context", project, "", session_id, TRUE,
                 "mission_runtime", timestamp, unchangedP).writes :
        unchangedP \in GateOutcomes(db.context_snapshots, "project_context", Digest(project))}

\* _persist_contexts: the stores after each of its four statements.
persist_contexts(db, project, master, session_id, timestamp) ==
    {(LET p == set_context(db, "project_context", project, "", session_id, TRUE,
                           "mission_runtime", timestamp, unchangedP)
          m == set_context(p.writes[Len(p.writes)], "master_context", master, "",
                           session_id, TRUE, "mission_runtime", timestamp, unchangedM)
      IN  p.writes \o m.writes) :
        unchangedP \in GateOutcomes(db.context_snapshots, "project_context", Digest(project)),
        unchangedM \in GateOutcomes(db.context_snapshots, "master_context", Digest(master))}

\* An insert that puts the row where its timestamp sorts: before every row
\* with a later ts.
insert_session_event_by_ts(db, event) ==
    LET row == [ts |-> event.ts, agent |-> event.agent, mission |-> event.mission,
                action |-> event.action, status |-> event.status,
                summary |-> event.summary,
                next_hint |-> Get(event, "next_hint", Null),
                raw_event |-> [json |-> event]]
        earlier == SelectSeq(db.session_events, LAMBDA r : r.ts <= event.ts)
        later == SelectSeq(db.session_events, LAMBDA r : r.ts > event.ts)
    IN  [db EXCEPT !.session_events = earlier \o <<row>> \o later]

\* _insert_session_event
insert_session_event(db, event) ==
    [db EXCEPT !.session_events =
        Append(@, [ts |-> event.ts, agent |-> event.agent, mission |-> event.mission,
                   action |-> event.action, status |-> event.status,
                   summary |-> event.summary,
                   next_hint |-> Get(event, "next_hint", Null),
                   raw_event |-> [json |-> event]])]

\* The newest Queued row: ORDER BY rowid DESC.
NewestQueued(rows) ==
    LET queued == {i \in 1..Len(rows) : rows[i].status = "Queued"}
    IN  IF queued = {} THEN 0 ELSE CHOOSE i \in queued : \A j \in queued : i >= j

\* The oldest row whatever its status.
OldestRow(rows) == IF rows = <<>> THEN 0 ELSE 1

\* SELECT id FROM missions WHERE status = 'Queued' ORDER BY rowid LIMIT 1
OldestQueued(rows) ==
    LET queued == {i \in 1..Len(rows) : rows[i].status = "Queued"}
    IN  IF queued = {} THEN 0 ELSE CHOOSE i \in queued : \A j \in queued : i <= j

\* _promote_next_queued: the store after its UPDATE and the id it returns.
promote_next_queued(db, immediate, started_at) ==
    LET i == OldestQueued(db.missions)
    IN  IF i = 0 THEN [db |-> db, id |-> Null]
        ELSE LET row == db.missions[i]
                 metadata0 == parse_metadata(row.metadata)
                 metadata == IF immediate /\ started_at # NoTime
                             THEN Put(metadata0, "started_at", started_at[1])
                             ELSE Pop(metadata0, "started_at")
             IN  [db |-> UpdateMission(db, row.id,
                            [status |-> IF immediate THEN "In Progress" ELSE "Current",
                             metadata |-> format_metadata(metadata)]),
                  id |-> row.id]

NoHint == <<>>
NextHints == {NoHint}
NotesInputs == {"done"}
TsInputs == {NoTime}

\* --------------------------------------------------- the three transitions
\* The body of start_mission's transaction: the store after each statement
\* that writes, for each way the snapshot queries can answer.
start_bodies(db, mission_id, agent, summary, ts, clock) ==
    LET row == db.missions[MissionRow(db, mission_id)]
        metadata == Put(parse_metadata(row.metadata), "started_at", ts)
        project1 == touch_working_memory(load_context(db, "project_context"),
                        mission_id, ts, agent, summary, "start", Null)
        master1 == touch_working_memory(load_context(db, "master_context"),
                        mission_id, ts, agent, summary, "start", Null)
        master2 == WithNextSession(master1, remove_blocker(NextSessionOf(master1), mission_id))
        project2 == update_context_health(project1, ts, TRUE)
        master3 == update_context_health(master2, ts, TRUE)
        w1 == UpdateMission(db, mission_id,
                  [status |-> "In Progress", metadata |-> format_metadata(metadata)])
        event == [ts |-> ts, agent |-> agent, mission |-> mission_id,
                  action |-> "start", status |-> "in_progress", summary |-> summary]
        w2 == insert_session_event(w1, event)
    IN  {[writes |-> <<w1, w2>> \o persisted, next_mission |-> Null] :
            persisted \in persist_contexts(w2, project2, master3, mission_id, clock)}

\* The body of complete_mission's transaction.
complete_bodies(db, mission_id, agent, summary, notes, ts, hint, promote_next, immediate, clock) ==
    LET row == db.missions[MissionRow(db, mission_id)]
        metadata == Put(parse_metadata(row.metadata), "completed_at", ts)
        w1 == UpdateMission(db, mission_id,
                  [status |-> "Completed", completed_at |-> <<ts>>, notes |-> notes,
                   metadata |-> format_metadata(metadata)])
        promo == IF promote_next
                 THEN promote_next_queued(w1, immediate, IF immediate THEN <<ts>> ELSE NoTime)
                 ELSE [db |-> w1, id |-> Null]
        next_hint == IF promo.id # Null /\ hint = NoHint
                     THEN <<promo.id, "is now", IF immediate THEN "In Progress" ELSE "Current">>
                     ELSE hint
        next_mission == IF immediate THEN promo.id ELSE Null
        project1 == touch_working_memory(load_context(db, "project_context"),
                        mission_id, ts, agent, summary, "complete", next_mission)
        master1 == touch_working_memory(load_context(db, "master_context"),
                        mission_id, ts, agent, summary, "complete", next_mission)
        master2 == WithNextSession(master1,
                          LET cleared == remove_blocker(NextSessionOf(master1), mission_id)
                          IN  IF promo.id # Null
                              THEN Put(cleared, "when_we_resume",
                                       AppendNew(Get(cleared, "when_we_resume", <<>>),
                                                 PickUpText(promo.id)))
                              ELSE cleared)
        project2 == update_context_health(project1, ts, TRUE)
        master3 == update_context_health(master2, ts, TRUE)
        event == [ts |-> ts, agent |-> agent, mission |-> mission_id,
                  action |-> "complete", status |-> "completed", summary |-> summary,
                  next_hint |-> next_hint]
        w3 == insert_session_event(promo.db, event)
    IN  {[writes |-> <<w1>> \o (IF promo.id # Null THEN <<promo.db>> ELSE <<>>) \o <<w3>>
                        \o persisted,
          next_mission |-> promo.id] :
            persisted \in persist_contexts(w3, project2, master3, mission_id, clock)}

\* The body of block_mission's transaction.
block_bodies(db, mission_id, agent, summary, reason, needs, ts, hint, clock) ==
    LET row == db.missions[MissionRow(db, mission_id)]
        m1 == Put(Put(parse_metadata(row.metadata), "blocked_at", ts), "blocked_reason", reason)
        metadata == IF needs # <<>> THEN Put(m1, "blocked_needs", needs)
                    ELSE Pop(m1, "blocked_needs")
        w1 == UpdateMission(db, mission_id,
                  [status |-> "Blocked", completed_at |-> NoTime, notes |-> reason,
                   metadata |-> format_metadata(metadata)])
        event == [ts |-> ts, agent |-> agent, mission |-> mission_id,
                  action |-> "blocked", status |-> "blocked", summary |-> summary,
                  next_hint |-> hint, needs |-> needs, reason |-> reason]
        w2 == insert_session_event(w1, event)
        project1 == touch_working_memory(load_context(db, "project_context"),
                        mission_id, ts, agent, summary, "blocked", Null)
        master1 == touch_working_memory(load_context(db, "master_context"),
                        mission_id, ts, agent, summary, "blocked", Null)
        master2 == WithNextSession(master1,
                      record_blocker(NextSessionOf(master1), mission_id, ts, summary,
                                     reason, needs))
        project2 == update_context_health(project1, ts, TRUE)
        master3 == update_context_health(master2, ts, TRUE)
    IN  {[writes |-> <<w1, w2>> \o persisted, next_mission |-> Null] :
            persisted \in persist_contexts(w2, project2, master3, mission_id, clock)}

\* A candidate query ordered by rowid alone.
fetch_oldest_candidate(rows) ==
    LET eligible == {i \in 1..Len(rows) : rows[i].status \in {"Queued", "Current", "In Progress"}}
    IN  IF eligible = {} THEN Null
        ELSE rows[CHOOSE i \in eligible : \A j \in eligible : i <= j].id

\* A candidate query without WHERE and ORDER BY.
fetch_first_row(rows) == IF rows = <<>> THEN Null ELSE rows[1].id

\* fetch_next_candidate: the id of the row returned, Null for none.
StatusRank(status) ==
    IF status = "In Progress" THEN 0
    ELSE IF status = "Current" THEN 1
    ELSE IF status = "Queued" THEN 2
    ELSE 3

CandidateStatuses == {"Queued", "Current", "In Progress"}

fetch_next_candidate(rows) ==
    LET eligible == {i \in 1..Len(rows) : rows[i].status \in CandidateStatuses}
    IN  IF eligible = {} THEN Null
        ELSE rows[CHOOSE i \in eligible :
                    \A j \in eligible :
                        \/ StatusRank(rows[i].status) < StatusRank(rows[j].status)
                        \/ /\ StatusRank(rows[i].status) = StatusRank(rows[j].status)
                           /\ i <= j].id

\* ------------------------------------------------------------------ actions
SetStore(db) ==
    /\ missions' = db.missions
    /\ session_events' = db.session_events
    /\ contexts' = db.contexts
    /\ context_snapshots' = db.context_snapshots

\* The clock at a call: the second of the call before it, or the next one.
ClockStep(dt) ==
    /\ dt = 1 => ticks > 0
    /\ ticks' = ticks - dt

\* Where a transaction of n writing statements can end: after all of them, or,
\* while the store still has an error to give, after fewer.
FailPoints(n) == IF faults > 0 THEN 0..n ELSE {n}

\* A lifecycle call that got past its "mission not found" guard: the
\* transaction commits, or an error after failAt statements rolls it back.
Finish(op, mission_id, bodies, ts, dt, flags) ==
    \E body \in bodies :
        \E failAt \in FailPoints(Len(body.writes)) :
            LET t == Transaction(CurrentDb, body.writes, failAt)
            IN  /\ SetStore(t.db)
                /\ faults' = IF t.ok THEN faults ELSE faults - 1
                /\ IF t.ok
                   THEN /\ ClockStep(dt)
                        /\ now' = now + dt
                        /\ last' = [op |-> op, mission |-> mission_id, ok |-> TRUE,
                                    error |-> "", ts |-> ts,
                                    prior |-> missions[MissionRow(CurrentDb, mission_id)].status,
                                    next_mission |-> body.next_mission, flags |-> flags]
                   ELSE /\ dt = 0
                        /\ UNCHANGED <<now, ticks>>
                        /\ last' = [op |-> op, ok |-> FALSE,
                                    error |-> "store_error", dirty |-> t.dirty]

\* A "not found" that is raised only after the call was logged.
NotFoundAfterEvent(op, mission_id, dt) ==
    /\ dt = 0
    /\ last' = [op |-> op, mission |-> mission_id, ok |-> FALSE, error |-> "not_found"]
    /\ session_events' = Append(session_events,
            [ts |-> now, agent |-> "codex", mission |-> mission_id, action |-> op,
             status |-> "", summary |-> "", next_hint |-> Null, raw_event |-> [json |-> EmptyDict]])
    /\ UNCHANGED <<missions, contexts, context_snapshots, now, ticks, faults>>

\* raise MissionRuntimeError("Mission ... not found in database")
NotFound(op, mission_id, dt) ==
    /\ dt = 0
    /\ last' = [op |-> op, mission |-> mission_id, ok |-> FALSE, error |-> "not_found"]
    /\ UNCHANGED <<store, now, ticks, faults>>

\* start_mission, called with a ts argument out of timestamps.
StartCall(timestamps) ==
    /\ UNCHANGED <<files, mission_dependencies>>
    /\ \E mission_id \in CallIds, agent \in Agents, summary \in Summaries,
       ts \in timestamps, dt \in {0, 1} :
        /\ budget > 0
        /\ budget' = budget - 1
        /\ IF ~MissionFound(CurrentDb, mission_id)
           THEN NotFound("start", mission_id, dt)
           ELSE Finish("start", mission_id,
                       start_bodies(CurrentDb, mission_id, agent, summary,
                                    TsOrNow(ts, now + dt), now + dt),
                       TsOrNow(ts, now + dt), dt, {})

\* complete_mission, called with a ts argument out of timestamps.
CompleteCall(timestamps) ==
    /\ UNCHANGED <<files, mission_dependencies>>
    /\ \E mission_id \in CallIds, agent \in Agents, summary \in Summaries,
       notes \in NotesInputs, ts \in timestamps, hint \in NextHints,
       promote_next \in BOOLEAN, immediate \in BOOLEAN, dt \in {0, 1} :
        /\ budget > 0
        /\ budget' = budget - 1
        /\ IF ~MissionFound(CurrentDb, mission_id)
           THEN NotFound("complete", mission_id, dt)
           ELSE Finish("complete", mission_id,
                       complete_bodies(CurrentDb, mission_id, agent, summary, notes,
                                       TsOrNow(ts, now + dt), hint, promote_next, immediate,
                                       now + dt),
                       TsOrNow(ts, now + dt), dt,
                       (IF promote_next THEN {"promote_next"} ELSE {})
                       \cup (IF promote_next /\ immediate THEN {"immediate"} ELSE {}))

\* block_mission, called with a ts argument out of timestamps.
BlockCall(timestamps) ==
    /\ UNCHANGED <<files, mission_dependencies>>
    /\ \E mission_id \in CallIds, agent \in Agents, summary \in Summaries,
       reason \in Reasons, needs \in NeedLists, ts \in timestamps, dt \in {0, 1} :
        /\ budget > 0
        /\ budget' = budget - 1
        /\ IF ~MissionFound(CurrentDb, mission_id)
           THEN NotFound("block", mission_id, dt)
           ELSE Finish("block", mission_id,
                       block_bodies(CurrentDb, mission_id, agent, summary, reason,
                                    needs, TsOrNow(ts, now + dt), NoHint, now + dt),
                       TsOrNow(ts, now + dt), dt, {})

StartMission == StartCall(TsInputs)
CompleteMission == CompleteCall(TsInputs)
BlockMission == BlockCall(TsInputs)

\* Whether the newest snapshot row of a context id (the one inserted last)
\* carries another hash than the payload, or there is none.
FreshPayload(rows, context_id, payload) ==
    LET mine == {i \in 1..Len(rows) : rows[i].context_id = context_id}
    IN  \A i \in mine : (\A j \in mine : j <= i) => rows[i].content_hash # Digest(payload)

StorePayloads == {[note |-> "a"], [note |-> "b"]}
SourcePaths == {Null, "context.json"}

\* A caller that persists one context document in a transaction of its own,
\* as the migration's database sync does for each document.
SetContextCall ==
    /\ UNCHANGED <<files, mission_dependencies>>
    /\ \E context_id \in ContextIds, payload \in StorePayloads, source_path \in SourcePaths,
       snapshot \in BOOLEAN, dt \in {0, 1} :
        /\ budget > 0
        /\ budget' = budget - 1
        /\ \E unchanged \in GateOutcomes(context_snapshots, context_id, Digest(payload)) :
            LET call == set_context(CurrentDb, context_id, payload, source_path, Null,
                                    snapshot, Null, now + dt, unchanged)
            IN  \E failAt \in FailPoints(Len(call.writes)) :
                    LET t == Transaction(CurrentDb, call.writes, failAt)
                    IN  /\ SetStore(t.db)
                        /\ faults' = IF t.ok THEN faults ELSE faults - 1
                        /\ IF t.ok
                           THEN /\ ClockStep(dt)
                                /\ now' = now + dt
                                /\ last' = [op |-> "set_context", ok |-> TRUE, error |-> "",
                                            context_id |-> context_id, payload |-> payload,
                                            snapshot |-> snapshot,
                                            appended |-> call.appended,
                                            fresh |-> FreshPayload(context_snapshots,
                                                                   context_id, payload),
                                            prev |-> IF last.op = "set_context" /\ last.ok
                                                     THEN <<[context_id |-> last.context_id,
                                                             payload |-> last.payload,
                                                             snapshot |-> last.snapshot,
                                                             appended |-> last.appended,
                                                             fresh |-> last.fresh]>>
                                                     ELSE <<>>]
                           ELSE /\ dt = 0
                                /\ UNCHANGED <<now, ticks>>
                                /\ last' = [op |-> "set_context", ok |-> FALSE,
                                            error |-> "store_error", dirty |-> t.dirty]

NextMission ==
    /\ UNCHANGED <<files, mission_dependencies>>
    /\ budget > 0
    /\ budget' = budget - 1
    /\ last' = [op |-> "next_mission", ok |-> TRUE, error |-> "",
                candidate |-> fetch_next_candidate(missions)]
    /\ UNCHANGED <<store, now, ticks, faults>>

\* ------------------------------------------------- migration: context merge
\* A parsed JSON value of the migration script, by its Python type: None, str,
\* int, list or dict.
\* A value is a record with one field, named after its type.
JNull == [null |-> TRUE]
JStr(text) == [str |-> text]
JNum(n) == [num |-> n]
JList(items) == [list |-> items]
JObj(members) == [obj |-> members]

\* type(value), and the Python value itself
JType(value) == CHOOSE t \in DOMAIN value : TRUE
JVal(value) == value[JType(value)]

\* bool(value)
Truthy(value) ==
    CASE JType(value) = "null" -> FALSE
      [] JType(value) = "str" -> JVal(value) # ""
      [] JType(value) = "num" -> JVal(value) # 0
      [] JType(value) = "list" -> JVal(value) # <<>>
      [] JType(value) = "obj" -> DOMAIN JVal(value) # {}

\* not text.strip(), for the texts of this model
IsBlank(text) == text \in {"", " "}

\* dict.get(key): None for a missing key
JGet(members, key) == IF key \in DOMAIN members THEN members[key] ELSE JNull

\* _should_replace(current, incoming)
should_replace(current, incoming) ==
    IF JType(incoming) = "null" THEN FALSE
    ELSE IF JType(current) = "null" THEN TRUE
    ELSE IF JType(current) = "str" THEN IsBlank(JVal(current)) /\ Truthy(incoming)
    ELSE IF JType(current) \in {"list", "obj"} THEN ~Truthy(current) /\ Truthy(incoming)
    ELSE IF JType(current) = "num" THEN JVal(current) = 0 /\ incoming # JStr("")
    ELSE FALSE

\* for item in value: if item not in existing_items: existing_items.append(item)
RECURSIVE ListUnion(_, _)
ListUnion(existing, value) ==
    IF value = <<>> THEN existing
    ELSE ListUnion(AppendNew(existing, Head(value)), Tail(value))

\* A call that returned result, and one that raised.
Returned(result) == [ok |-> TRUE, v |-> result]
Raised(error) == [ok |-> FALSE, error |-> error]

\* deep_merge(target, incoming): target after the loop over incoming.items().
\* A target that is no dict raises AttributeError at the first target.get.
\* MergeKey is one turn of the loop: whether it assigned target[key], and what.
RECURSIVE deep_merge(_, _)
RECURSIVE MergeKey(_, _, _)
deep_merge(target, incoming) ==
    IF DOMAIN incoming = {} THEN Returned(target)
    ELSE IF JType(target) # "obj" THEN Raised("AttributeError")
    ELSE LET turn == [key \in DOMAIN incoming |-> MergeKey(JVal(target), key, incoming[key])]
             assigned == {key \in DOMAIN incoming : turn[key].ok /\ turn[key].assigned}
         IN  IF \E key \in DOMAIN incoming : ~turn[key].ok
             THEN Raised("AttributeError")
             ELSE Returned(JObj([key \in DOMAIN JVal(target) \cup assigned |->
                                    IF key \in assigned THEN turn[key].v
                                    ELSE JVal(target)[key]]))

MergeKey(members, key, value) ==
    LET current == JGet(members, key)
    IN  IF JType(value) = "obj"
        THEN LET node == IF JType(current) = "obj" \/ key \in DOMAIN members THEN current
                         ELSE JObj(EmptyDict)
                 merged == deep_merge(node, JVal(value))
             IN  IF merged.ok THEN [ok |-> TRUE, assigned |-> TRUE, v |-> merged.v]
                 ELSE [ok |-> FALSE, assigned |-> FALSE]
        ELSE IF JType(value) = "list"
        THEN IF ~Truthy(current) THEN [ok |-> TRUE, assigned |-> TRUE, v |-> value]
             ELSE IF JType(current) = "list"
                  THEN [ok |-> TRUE, assigned |-> TRUE,
                        v |-> JList(ListUnion(JVal(current), JVal(value)))]
                  ELSE [ok |-> TRUE, assigned |-> FALSE]
        ELSE IF should_replace(current, value)
             THEN [ok |-> TRUE, assigned |-> TRUE, v |-> value]
             ELSE [ok |-> TRUE, assigned |-> FALSE]

\* The migration marker: metadata = merged.setdefault("metadata", {}), then
\* the two item assignments, which raise TypeError on anything but a dict.
MigratedAt == JStr("migrated-at")
SourceVersion == JStr("cmos-v1")

StampMarker(merged) ==
    LET metadata == IF "metadata" \in DOMAIN merged THEN merged["metadata"] ELSE JObj(EmptyDict)
    IN  IF JType(metadata) # "obj" THEN Raised("TypeError")
        ELSE Returned(JObj(Put(merged, "metadata",
                JObj(Put(Put(JVal(metadata), "migrated_at", MigratedAt),
                         "source_version", SourceVersion)))))

\* _merge_master_context(old, new); old and new are the members of the two
\* documents.
merge_master_context(old, new) ==
    LET merged == deep_merge(JObj(new), old)
    IN  IF ~merged.ok THEN merged ELSE StampMarker(JVal(merged.v))

\* if _should_replace(section.get(field), incoming): section[field] = incoming
FillField(section, field, incoming) ==
    IF should_replace(JGet(section, field), incoming)
    THEN Put(section, field, incoming)
    ELSE section

RECURSIVE FillFields(_, _, _)
FillFields(section, fields, source) ==
    IF fields = <<>> THEN section
    ELSE FillFields(FillField(section, Head(fields), JGet(source, Head(fields))),
                    Tail(fields), source)

WorkingMemoryFields == <<"active_domain", "session_count", "last_session", "active_mission">>

\* if not working_new.get("domains"): working_new["domains"] = domains,
\* under the guard that domains is truthy
FillDomains(working_new, domains) ==
    IF Truthy(domains) /\ ~Truthy(JGet(working_new, "domains"))
    THEN Put(working_new, "domains", domains)
    ELSE working_new

\* if value and key not in container: container[key] = value. The membership
\* test raises TypeError on None and on a number, the assignment on a list and
\* on a str that does not hold the key (no str of this model holds one).
FillAbsent(container, key, value) ==
    IF ~Truthy(value) THEN Returned(container)
    ELSE IF JType(container) = "obj"
    THEN Returned(IF key \in DOMAIN JVal(container) THEN container
                  ELSE JObj(Put(JVal(container), key, value)))
    ELSE IF JType(container) = "list" /\ SeqContains(JVal(container), JStr(key))
    THEN Returned(container)
    ELSE Raised("TypeError")

\* _merge_project_context(old, new); old and new are the members of the two
\* documents. A section that is present but no dict raises AttributeError at
\* its first .get.
merge_project_context(old, new) ==
    LET project == Get(new, "project", JObj(EmptyDict))
        working_old == Get(old, "working_memory", JObj(EmptyDict))
        working_new == Get(new, "working_memory", JObj(EmptyDict))
        technical_new == Get(new, "technical_context", JObj(EmptyDict))
    IN  IF JType(project) # "obj" \/ JType(working_old) # "obj" \/ JType(working_new) # "obj"
        THEN Raised("AttributeError")
        ELSE LET named == FillField(JVal(project), "name", JGet(old, "project_name"))
                 versioned == FillField(named, "version", JGet(old, "version"))
                 dated == FillField(versioned, "start_date", JGet(old, "created"))
                 project_filled == FillField(dated, "status", JGet(old, "status"))
                 working_filled ==
                    FillDomains(
                        FillDomains(FillFields(JVal(working_new), WorkingMemoryFields,
                                               JVal(working_old)),
                                    JGet(JVal(working_old), "domains")),
                        JGet(old, "domains"))
                 planned == FillAbsent(technical_new, "mission_planning",
                                       JGet(old, "mission_planning"))
                 sprinted == IF planned.ok
                             THEN FillAbsent(planned.v, "current_sprint",
                                             JGet(old, "current_sprint"))
                             ELSE planned
             IN  IF ~sprinted.ok THEN sprinted
                 ELSE LET sections ==
                              Put(Put(Put(new, "project", JObj(project_filled)),
                                      "working_memory", JObj(working_filled)),
                                  "technical_context", sprinted.v)
                          instructed ==
                              FillAbsent(JObj(sections), "ai_instructions",
                                         JGet(old, "ai_instructions"))
                      IN  StampMarker(JVal(instructed.v))

\* ------------------------------------------------- migration: session merge
\* A session entry as _load_sessions returns it: a dict with session_id,
\* timestamp, type and summary (Null where the line has none), one further
\* field (agent), and __raw__, the text the entry was read from ("line") or
\* the json.dumps of its other fields ("dumps").
SessionKey(entry) ==
    <<entry.session_id, entry.timestamp, entry.type, entry.summary>>

SansRaw(entry) == [field \in DOMAIN entry \ {"raw"} |-> entry[field]]

\* A combined list that keeps every entry, whether or not its key was seen.
KeepEveryEntry(entries, combined) == combined \o entries

\* combined.values(): the entries of the new list, then of the old list,
\* without those whose key an earlier entry already has.
RECURSIVE FirstPerKey(_, _)
FirstPerKey(entries, combined) ==
    IF entries = <<>> THEN combined
    ELSE LET entry == Head(entries)
             taken == \E i \in 1..Len(combined) : SessionKey(combined[i]) = SessionKey(entry)
         IN  FirstPerKey(Tail(entries), IF taken THEN combined ELSE Append(combined, entry))

\* _parse_timestamp(value): a datetime, aware or naive, as days after
\* datetime.min. A text ending in "Z" or in an offset parses to an aware
\* datetime and a text without one to a naive datetime; None and a text that
\* is no ISO date give the aware minimum.
MinDatetime == [aware |-> TRUE, at |-> 0]

parse_timestamp(value) ==
    CASE value = Null -> MinDatetime
      [] value = "2025-01-01T00:00:00Z" -> [aware |-> TRUE, at |-> 1]
      [] value = "2025-01-01T00:00:00+00:00" -> [aware |-> TRUE, at |-> 1]
      [] value = "2025-01-02T00:00:00Z" -> [aware |-> TRUE, at |-> 2]
      [] value = "2025-01-01T00:00:00" -> [aware |-> FALSE, at |-> 1]
      [] OTHER -> MinDatetime

\* The order of str on the session ids of this model.
SessionIdOrder == <<"s1", "s2">>
SessionIdRank(session_id) ==
    CHOOSE i \in 1..Len(SessionIdOrder) : SessionIdOrder[i] = session_id

\* sort_key(a) < sort_key(b) on the tuples (datetime, session_id, index) can be
\* evaluated: the first components that differ are two datetimes that are both
\* aware or both naive, or two session ids that are both str. Comparing an
\* aware with a naive datetime, or None with a str, raises TypeError.
Comparable(a, b) ==
    LET da == parse_timestamp(a.timestamp)
        db == parse_timestamp(b.timestamp)
    IN  IF da # db THEN da.aware = db.aware
        ELSE a.session_id = b.session_id
             \/ (a.session_id # Null /\ b.session_id # Null)

\* A sort key that is the insertion index alone.
KeyLessByIndex(combined, i, j) == i < j

\* sort_key(combined[i]) < sort_key(combined[j]), for a comparable pair
KeyLess(combined, i, j) ==
    LET a == combined[i]
        b == combined[j]
        da == parse_timestamp(a.timestamp)
        db == parse_timestamp(b.timestamp)
    IN  IF da # db THEN da.at < db.at
        ELSE IF a.session_id # b.session_id
             THEN SessionIdRank(a.session_id) < SessionIdRank(b.session_id)
             ELSE i < j

\* payload = dict(entry); payload["__raw__"] = json.dumps(the other fields).
\* The raw form "dumps" is the text json.dumps gives for the entry's fields;
\* "line" is any other text of the same entry (compact JSON, a loose mapping).
Reserialised(entry) == [entry EXCEPT !.raw = "dumps"]

\* _merge_sessions(old_entries, new_entries). sorted() compares the two
\* entries that end up next to each other, so it raises exactly when two of
\* the combined entries cannot be compared.
merge_sessions(old_entries, new_entries) ==
    LET combined == FirstPerKey(new_entries \o old_entries, <<>>)
        n == Len(combined)
        sorted_entries ==
            [k \in 1..n |->
                combined[CHOOSE i \in 1..n :
                    Cardinality({j \in 1..n : j # i /\ KeyLess(combined, j, i)}) = k - 1]]
    IN  IF \E i, j \in 1..n : ~Comparable(combined[i], combined[j])
        THEN Raised("TypeError")
        ELSE Returned([k \in 1..n |-> Reserialised(sorted_entries[k])])

\* -------------------------------------------------------------- initial state
SeedMetadata ==
    <<JsonColumn([description |-> "seed"]), NullColumn, BadColumn>>

SeedMissions ==
    [i \in 1..Len(SeededIds) |->
        [id |-> SeededIds[i], status |-> "Queued", completed_at |-> NoTime,
         notes |-> Null, metadata |-> SeedMetadata[i]]]

NoCall == [op |-> "none", ok |-> TRUE, error |-> ""]

\* The target workspace before a migration has run in it: SESSIONS.jsonl,
\* PROJECT_CONTEXT.json and context/MASTER_CONTEXT.json do not exist (<<>>; a
\* file that exists is <<content>>), and there is no backup of any of them.
\* backlog is missions/backlog.yaml, the export the command line writes.
NoFiles ==
    [sessions |-> <<>>, project |-> <<>>, master |-> <<>>,
     sessions_backups |-> EmptyDict, project_backups |-> EmptyDict,
     master_backups |-> EmptyDict, backlog |-> <<>>]

Init ==
    /\ missions = SeedMissions
    /\ session_events = <<>>
    /\ contexts = EmptyDict
    /\ context_snapshots = <<>>
    /\ now = 1
    /\ budget = MaxOps
    /\ ticks = MaxTicks
    /\ faults = 0
    /\ last = NoCall
    /\ files = NoFiles
    /\ mission_dependencies = <<>>

\* A run in which the store may raise an error.
InitFaults ==
    /\ missions = SeedMissions
    /\ session_events = <<>>
    /\ contexts = EmptyDict
    /\ context_snapshots = <<>>
    /\ now = 1
    /\ budget = MaxFaultOps
    /\ ticks = MaxTicks
    /\ faults = MaxFaults
    /\ last = NoCall
    /\ files = NoFiles
    /\ mission_dependencies = <<>>

\* A run of direct context writes.
InitStore ==
    /\ missions = SeedMissions
    /\ session_events = <<>>
    /\ contexts = EmptyDict
    /\ context_snapshots = <<>>
    /\ now = 1
    /\ budget = MaxStoreOps
    /\ ticks = MaxTicks
    /\ faults = MaxFaults
    /\ last = NoCall
    /\ files = NoFiles
    /\ mission_dependencies = <<>>

\* A run on a backlog as the seeding script inserts it: every mission with the
\* status, and the completed_at, its backlog entry gives.
MissionStatuses == {"Queued", "Current", "In Progress", "Blocked", "Completed"}

SeededBacklogs ==
    {[i \in 1..Len(SeededIds) |->
        [id |-> SeededIds[i], status |-> statuses[i],
         completed_at |-> IF statuses[i] = "Completed" THEN <<0>> ELSE NoTime,
         notes |-> Null, metadata |-> SeedMetadata[i]]] :
     statuses \in [1..Len(SeededIds) -> MissionStatuses]}

InitBacklog ==
    /\ missions \in SeededBacklogs
    /\ session_events = <<>>
    /\ contexts = EmptyDict
    /\ context_snapshots = <<>>
    /\ now = 1
    /\ budget = MaxBacklogOps
    /\ ticks = 0
    /\ faults = 0
    /\ last = NoCall
    /\ files = NoFiles
    /\ mission_dependencies = <<>>

\* A run that begins with the calls that fill the session history up to one
\* entry below its cap: the first mission is started again and again, once a
\* second.
WarmUpCalls == HistoryCap - 1

InitHistory ==
    /\ missions = SeedMissions
    /\ session_events = <<>>
    /\ contexts = EmptyDict
    /\ context_snapshots = <<>>
    /\ now = 1
    /\ budget = 0
    /\ ticks = WarmUpCalls + MaxTicks
    /\ faults = 0
    /\ last = NoCall
    /\ files = NoFiles
    /\ mission_dependencies = <<>>

WarmUp ==
    /\ UNCHANGED <<files, mission_dependencies>>
    /\ budget = 0
    /\ Len(session_events) < WarmUpCalls
    /\ budget' = IF Len(session_events) + 1 = WarmUpCalls THEN MaxHistoryOps ELSE 0
    /\ Finish("start", SeededIds[1],
              start_bodies(CurrentDb, SeededIds[1], "codex", "work", now + 1, now + 1),
              now + 1, 1, {})

\* ---------------------------------------------------------- migration: calls
\* The session lists of a legacy and of a current installation: up to
\* MaxEntries entries, with and without a session id, with aware, naive and
\* missing timestamps.
SessionTimestamps ==
    {Null, "2025-01-01T00:00:00Z", "2025-01-01T00:00:00+00:00", "2025-01-01T00:00:00"}

SessionEntries(agent) ==
    {[session_id |-> session_id, timestamp |-> timestamp, type |-> "start",
      summary |-> "run", agent |-> agent, raw |-> "line"] :
     session_id \in {Null} \cup {SessionIdOrder[i] : i \in 1..Len(SessionIdOrder)},
     timestamp \in SessionTimestamps}

SessionLists(agent) ==
    UNION {[1..n -> SessionEntries(agent)] : n \in 0..MaxEntries}

\* _load_sessions: parsed["__raw__"] = stripped, the line as it stands in the
\* file, which is or is not the text json.dumps gives for the same fields.
LineForms == {"line", "dumps"}

LoadedAs(entries, form) == [i \in DOMAIN entries |-> [entries[i] EXCEPT !.raw = form]]

\* A document with the field key, or without it when option is <<>>.
Opt(values) == {<<>>} \cup {<<value>> : value \in values}
With(doc, key, option) == IF option = <<>> THEN doc ELSE Put(doc, key, option[1])

\* Master context documents: one section holding any kind of JSON value, and
\* a metadata field.
SectionValues ==
    {JNull, JStr(""), JStr("s"), JNum(0), JNum(1), JList(<<>>), JList(<<JStr("p")>>),
     JList(<<JStr("q"), JStr("p")>>), JObj(EmptyDict), JObj([k |-> JStr("s")]),
     JObj([k |-> JNull]), JObj([j |-> JNum(1)])}

MetadataValues ==
    {JObj(EmptyDict), JObj([source_version |-> JStr("v0")]), JStr("s")}

MasterDocs ==
    {With(With(EmptyDict, "constraints", section), "metadata", metadata) :
     section \in Opt(SectionValues), metadata \in Opt(MetadataValues)}

\* Project context documents, in the legacy layout (top-level project_name,
\* domains, mission_planning) and in the current one (project, working_memory
\* and technical_context sections).
ProjectDocs ==
    {With(With(With(With(With(With(EmptyDict,
        "project", project), "project_name", project_name),
        "working_memory", working_memory), "domains", domains),
        "technical_context", technical_context), "mission_planning", mission_planning) :
     project \in Opt({JObj([name |-> JStr("cmos")]), JObj([name |-> JStr("")]), JNull}),
     project_name \in Opt({JStr("legacy")}),
     working_memory \in Opt({JObj([session_count |-> JNum(0)]),
                             JObj([domains |-> JList(<<JStr("core")>>)])}),
     domains \in Opt({JList(<<JStr("api")>>)}),
     technical_context \in Opt({JObj([mission_planning |-> JStr("m")])}),
     mission_planning \in Opt({JStr("plan")})}

MergeFrame ==
    UNCHANGED <<missions, session_events, contexts, context_snapshots, now, ticks, faults, files,
                mission_dependencies>>

\* main(), sessions: merged_sessions = _merge_sessions(old_sessions, new_sessions)
MergeSessionsCall ==
    /\ budget > 0
    /\ \E old_list \in SessionLists("codex"), new_list \in SessionLists("gpt"),
          form \in LineForms :
        /\ budget' = budget - 1
        /\ LET old_entries == LoadedAs(old_list, form)
               new_entries == LoadedAs(new_list, form)
               call == merge_sessions(old_entries, new_entries)
           IN  last' = IF call.ok
                       THEN [op |-> "merge_sessions", ok |-> TRUE, error |-> "",
                             old_entries |-> old_entries, new_entries |-> new_entries,
                             merged_entries |-> call.v]
                       ELSE [op |-> "merge_sessions", ok |-> FALSE, error |-> call.error,
                             old_entries |-> old_entries, new_entries |-> new_entries]
        /\ MergeFrame

\* main(), contexts: merged_project = _merge_project_context(old, new) and
\* merged_master = _merge_master_context(old, new)
MergeContextCall ==
    /\ budget > 0
    /\ \E kind \in {"project", "master"} :
        \E old \in IF kind = "project" THEN ProjectDocs ELSE MasterDocs,
           new \in IF kind = "project" THEN ProjectDocs ELSE MasterDocs :
            /\ budget' = budget - 1
            /\ LET call == IF kind = "project" THEN merge_project_context(old, new)
                           ELSE merge_master_context(old, new)
               IN  last' = IF call.ok
                           THEN [op |-> "merge_context", ok |-> TRUE, error |-> "",
                                 kind |-> kind, old |-> old, new |-> new,
                                 merged |-> JVal(call.v)]
                           ELSE [op |-> "merge_context", ok |-> FALSE, error |-> call.error,
                                 kind |-> kind, old |-> old, new |-> new]
            /\ MergeFrame

\* _session_hint(payload): the first of working_memory's last_session,
\* active_mission and current_session that is truthy, or None.
session_hint(payload) ==
    LET working == Get(payload, "working_memory", EmptyDict)
        hints == SelectSeq(<<"last_session", "active_mission", "current_session">>,
                           LAMBDA key : key \in DOMAIN working /\ working[key] \notin {Null, ""})
    IN  IF hints = <<>> THEN Null ELSE working[hints[1]]

\* The row that the INSERT of _sync_database writes for a merged entry; the
\* raw_event column holds the entry's __raw__ text.
SessionRow(event) ==
    [ts |-> event.timestamp, agent |-> event.agent, mission |-> Null, action |-> Null,
     status |-> event.type, summary |-> event.summary, next_hint |-> Null,
     raw_event |-> [text |-> event.raw]]

ProjectSource == "PROJECT_CONTEXT.json"
MasterSource == "MASTER_CONTEXT.json"

\* The body of the transaction of _sync_database: the store after each of its
\* statements. Both documents are written with a snapshot, then every row of
\* session_events is deleted and one row per merged entry is inserted.
sync_database(db, project_payload, master_payload, sessions, timestamp, project_unchanged, master_unchanged) ==
    LET project == set_context(db, "project_context", project_payload, ProjectSource,
                               session_hint(project_payload), TRUE, ProjectSource,
                               timestamp, project_unchanged)
        master == set_context(project.writes[Len(project.writes)], "master_context",
                              master_payload, MasterSource, session_hint(master_payload),
                              TRUE, MasterSource, timestamp, master_unchanged)
        deleted == [master.writes[Len(master.writes)] EXCEPT !.session_events = <<>>]
        inserted == [deleted EXCEPT !.session_events =
                        [i \in 1..Len(sessions) |-> SessionRow(sessions[i])]]
    IN  project.writes \o master.writes \o <<deleted, inserted>>

\* The documents and the merged session lists a migration syncs: the session
\* files hold the entries of the two installations, and not the events that the
\* runtime wrote to the store only.
SyncPayloads == {[note |-> "a"], [working_memory |-> [active_mission |-> "M1"]]}

SyncedSessions ==
    LET calls == {merge_sessions(old_entries, new_entries) :
                    old_entries \in {<<>>} \cup {<<entry>> : entry \in SessionEntries("codex")},
                    new_entries \in {<<>>} \cup {<<entry>> : entry \in SessionEntries("gpt")}}
    IN  {call.v : call \in {call \in calls : call.ok}}

\* main() with --sync-db: _sync_database(db_path, schema_path, merged_project,
\* merged_master, merged_sessions, ...)
SyncDatabase ==
    /\ UNCHANGED <<files, mission_dependencies>>
    /\ budget > 0
    /\ \E project_payload \in SyncPayloads, master_payload \in SyncPayloads,
          sessions \in SyncedSessions, dt \in {0, 1} :
        /\ budget' = budget - 1
        /\ \E project_unchanged \in GateOutcomes(context_snapshots, "project_context",
                                                 Digest(project_payload)),
              master_unchanged \in GateOutcomes(context_snapshots, "master_context",
                                                Digest(master_payload)) :
            LET writes == sync_database(CurrentDb, project_payload, master_payload, sessions,
                                        now + dt, project_unchanged, master_unchanged)
            IN  \E failAt \in FailPoints(Len(writes)) :
                    LET t == Transaction(CurrentDb, writes, failAt)
                    IN  /\ SetStore(t.db)
                        /\ faults' = IF t.ok THEN faults ELSE faults - 1
                        /\ IF t.ok
                           THEN /\ ClockStep(dt)
                                /\ now' = now + dt
                                /\ last' = [op |-> "sync_database", ok |-> TRUE, error |-> "",
                                            sessions |-> sessions]
                           ELSE /\ dt = 0
                                /\ UNCHANGED <<now, ticks>>
                                /\ last' = [op |-> "sync_database", ok |-> FALSE,
                                            error |-> "store_error", dirty |-> t.dirty]

\* ------------------------------------------------------------ migration: main
\* A line of a sessions file: the form of its text and, where the text is a
\* mapping, the entry it stands for.
\*   "dumps"    a JSON object, laid out as json.dumps lays it out
\*   "compact"  a JSON object in another layout
\*   "array"    JSON, but not an object
\*   "loose"    {key: value, ...} with bare keys: not JSON
\*   "yaml"     key: value, ... without braces: YAML only
\*   "plain"    words without colon or brace: YAML loads them as a str
\*   "broken"   an opening brace that is never closed: not YAML either
\*   "blank"    whitespace
MappingForms == {"dumps", "compact", "loose", "yaml"}
OtherForms == {"array", "plain", "broken", "blank"}

SourceEntry ==
    [session_id |-> "s1", timestamp |-> "2025-01-01T00:00:00Z", type |-> "start",
     summary |-> "run", agent |-> "codex"]

TargetEntry ==
    [session_id |-> "s2", timestamp |-> Null, type |-> "start",
     summary |-> "run", agent |-> "gpt"]

Lines ==
    {[form |-> form, entry |-> SourceEntry] : form \in MappingForms}
        \cup {[form |-> form] : form \in OtherForms}

\* json.loads(stripped): a dict, another value, or JSONDecodeError
json_loads(line) ==
    IF line.form \in {"dumps", "compact"} THEN Returned([mapping |-> line.entry])
    ELSE IF line.form = "array" THEN Returned([other |-> "list"])
    ELSE Raised("JSONDecodeError")

\* _parse_loose_mapping(payload): ValueError unless the text is within braces
\* and each of its segments has a colon
parse_loose_mapping(line) ==
    IF line.form = "loose" THEN Returned([mapping |-> line.entry])
    ELSE Raised("ValueError")

\* yaml.safe_load(stripped), which the loader reaches for a line that is
\* neither JSON nor a loose mapping
yaml_safe_load(line) ==
    IF line.form \in MappingForms THEN Returned([mapping |-> line.entry])
    ELSE IF line.form = "broken" THEN Raised("YAMLError")
    ELSE Returned([other |-> "str"])

\* One turn of the loop of _load_sessions over a non-blank line: the entry
\* with its __raw__, or the error raised. yaml_installed is whether the
\* optional import of yaml at the top of the script succeeded.
load_line(line, yaml_installed) ==
    LET parsed == json_loads(line)
        loose == parse_loose_mapping(line)
        loaded == yaml_safe_load(line)
        result ==
            IF parsed.ok THEN parsed
            ELSE IF loose.ok THEN loose
            ELSE IF ~yaml_installed THEN Raised("ValueError")
            ELSE IF ~loaded.ok THEN Raised("ValueError")
            ELSE IF "mapping" \notin DOMAIN loaded.v THEN Raised("ValueError")
            ELSE loaded
    IN  IF ~result.ok THEN result
        ELSE IF "mapping" \notin DOMAIN result.v THEN Raised("TypeError")
        ELSE Returned([field \in DOMAIN result.v.mapping \cup {"raw"} |->
                        IF field = "raw"
                        THEN IF line.form = "dumps" THEN "dumps" ELSE "line"
                        ELSE result.v.mapping[field]])

\* A loader that leaves out the lines it cannot read.
RECURSIVE load_sessions_skipping(_, _)
load_sessions_skipping(lines, yaml_installed) ==
    IF lines = <<>> THEN Returned(<<>>)
    ELSE LET entry == load_line(Head(lines), yaml_installed)
             rest == load_sessions_skipping(Tail(lines), yaml_installed)
         IN  IF Head(lines).form = "blank" \/ ~entry.ok THEN rest
             ELSE Returned(<<entry.v>> \o rest.v)

\* _load_sessions(path) for a file with these lines (none for a path that
\* does not exist): the entries, or the error of the first line that raises.
RECURSIVE load_sessions(_, _)
load_sessions(lines, yaml_installed) ==
    IF lines = <<>> THEN Returned(<<>>)
    ELSE IF Head(lines).form = "blank" THEN load_sessions(Tail(lines), yaml_installed)
    ELSE LET entry == load_line(Head(lines), yaml_installed)
             rest == load_sessions(Tail(lines), yaml_installed)
         IN  IF ~entry.ok THEN entry
             ELSE IF ~rest.ok THEN rest
             ELSE Returned(<<entry.v>> \o rest.v)

\* _write_sessions: one json.dumps line per entry, without its __raw__
write_sessions(entries) ==
    [i \in 1..Len(entries) |-> [form |-> "dumps", entry |-> SansRaw(entries[i])]]

\* _load_json(path): {} for a file that does not exist
load_json(file) == IF file = <<>> THEN EmptyDict ELSE file[1]

\* _create_backup(path) for a path that exists: a copy named after the second
\* of the clock
create_backup(backups, file, timestamp) ==
    IF file = <<>> THEN backups ELSE Put(backups, timestamp, file[1])

\* main(), lines 484-507: the three merged values, or the error of the first
\* load or merge that raises. No --source-db is given.
main_merge(source_lines, target_lines, old_project, new_project, old_master, new_master, yaml_installed) ==
    LET old_sessions == load_sessions(source_lines, yaml_installed)
        new_sessions == load_sessions(target_lines, yaml_installed)
    IN  IF ~old_sessions.ok THEN old_sessions
        ELSE IF ~new_sessions.ok THEN new_sessions
        ELSE LET merged_sessions == merge_sessions(old_sessions.v, new_sessions.v)
                 merged_project == merge_project_context(old_project, new_project)
                 merged_master == merge_master_context(old_master, new_master)
             IN  IF ~merged_sessions.ok THEN merged_sessions
                 ELSE IF ~merged_project.ok THEN merged_project
                 ELSE IF ~merged_master.ok THEN merged_master
                 ELSE [ok |-> TRUE, sessions |-> merged_sessions.v,
                       project |-> JVal(merged_project.v),
                       master |-> JVal(merged_master.v)]

\* main(), lines 518-525: the backups of the target files that exist, unless
\* --no-backup, then the three files written
write_files(before, merged, no_backup, timestamp) ==
    [sessions |-> <<write_sessions(merged.sessions)>>,
     project |-> <<merged.project>>,
     master |-> <<merged.master>>,
     sessions_backups |-> IF no_backup THEN before.sessions_backups
                          ELSE create_backup(before.sessions_backups, before.sessions, timestamp),
     project_backups |-> IF no_backup THEN before.project_backups
                         ELSE create_backup(before.project_backups, before.project, timestamp),
     master_backups |-> IF no_backup THEN before.master_backups
                        ELSE create_backup(before.master_backups, before.master, timestamp),
     backlog |-> before.backlog]

\* The sessions files, the context documents of the source workspace, and the
\* target workspaces a migration meets. No document carries a last_session,
\* active_mission or current_session.
SourceFiles == UNION {[1..n -> Lines] : n \in 0..MaxLines}
SourceProjects == {[project_name |-> JStr("legacy")]}
SourceMasters == {[constraints |-> JList(<<JStr("p")>>)]}

TargetWorkspaces ==
    {[NoFiles EXCEPT !.sessions = sessions, !.project = project, !.master = master] :
        sessions \in Opt({<<[form |-> "dumps", entry |-> TargetEntry]>>,
                          <<[form |-> "plain"]>>}),
        project \in Opt({[project |-> JObj([name |-> JStr("cmos")])]}),
        master \in Opt({[constraints |-> JList(<<JStr("q")>>)]})}

\* main(): the whole invocation. An error of a load or a merge leaves main
\* before its first write; --dry-run returns after the merges; otherwise the
\* files are written unless --skip-files, and then the store is synchronised
\* when --sync-db is given.
MigrateMain ==
    /\ budget > 0
    /\ UNCHANGED mission_dependencies
    /\ \E source_lines \in SourceFiles, old_project \in SourceProjects,
          old_master \in SourceMasters, yaml_installed \in BOOLEAN, dry_run \in BOOLEAN,
          skip_files \in BOOLEAN, no_backup \in BOOLEAN, sync_db \in BOOLEAN, dt \in {0, 1} :
      \E merged \in {main_merge(source_lines,
                                 IF files.sessions = <<>> THEN <<>> ELSE files.sessions[1],
                                 old_project, load_json(files.project),
                                 old_master, load_json(files.master), yaml_installed)} :
        LET target_lines == IF files.sessions = <<>> THEN <<>> ELSE files.sessions[1]
            call == [op |-> "migrate", source_lines |-> source_lines,
                     target_lines |-> target_lines, yaml_installed |-> yaml_installed,
                     dry_run |-> dry_run, skip_files |-> skip_files,
                     no_backup |-> no_backup, sync_db |-> sync_db]
            returned == [field \in DOMAIN call \cup {"ok", "error"} |->
                            IF field = "ok" THEN TRUE
                            ELSE IF field = "error" THEN "" ELSE call[field]]
            raised(error) == [field \in DOMAIN call \cup {"ok", "error"} |->
                                IF field = "ok" THEN FALSE
                                ELSE IF field = "error" THEN error ELSE call[field]]
        IN  /\ budget' = budget - 1
            /\ IF ~merged.ok
               THEN /\ dt = 0
                    /\ last' = raised(merged.error)
                    /\ UNCHANGED <<store, now, ticks, faults, files>>
               ELSE IF dry_run
               THEN /\ dt = 0
                    /\ last' = returned
                    /\ UNCHANGED <<store, now, ticks, faults, files>>
               ELSE /\ files' = IF skip_files THEN files
                                ELSE write_files(files, merged, no_backup, now)
                    /\ IF ~sync_db
                       THEN /\ dt = 0
                            /\ last' = returned
                            /\ UNCHANGED <<store, now, ticks, faults>>
                       ELSE \E project_unchanged \in GateOutcomes(context_snapshots,
                                    "project_context", Digest(merged.project)),
                               master_unchanged \in GateOutcomes(context_snapshots,
                                    "master_context", Digest(merged.master)) :
                            LET writes == sync_database(CurrentDb, merged.project,
                                              merged.master, merged.sessions, now + dt,
                                              project_unchanged, master_unchanged)
                            IN  \E failAt \in FailPoints(Len(writes)) :
                                    LET t == Transaction(CurrentDb, writes, failAt)
                                    IN  /\ SetStore(t.db)
                                        /\ faults' = IF t.ok THEN faults ELSE faults - 1
                                        /\ IF t.ok
                                           THEN /\ ClockStep(dt)
                                                /\ now' = now + dt
                                                /\ last' = returned
                                           ELSE /\ dt = 0
                                                /\ UNCHANGED <<now, ticks>>
                                                /\ last' = raised("store_error")

\* A run of invocations of the migration script on a target workspace that
\* holds some, all or none of the three files, and whose store holds the
\* seeded missions.
InitMain ==
    /\ missions = SeedMissions
    /\ session_events = <<>>
    /\ contexts = EmptyDict
    /\ context_snapshots = <<>>
    /\ now = 1
    /\ budget = MaxMainOps
    /\ ticks = MaxTicks
    /\ faults = 0
    /\ last = NoCall
    /\ files \in TargetWorkspaces
    /\ mission_dependencies = <<>>

NextMain == MigrateMain
SpecMain == InitMain /\ [][NextMain]_vars

\* ------------------------------------------------------ cli: mission depends
DepTypes == {"Blocks", "Relates"}

\* A dependency insertion that never meets a conflict.
insert_dependency(rows, from_id, to_id, dep_type) ==
    Append(rows, [from_id |-> from_id, to_id |-> to_id, type |-> dep_type])

\* The conflict target of the INSERT: the schema declares (from_id, to_id)
\* the key of mission_dependencies.
DependencyKey(row) == <<row.from_id, row.to_id>>

\* INSERT INTO mission_dependencies ... ON CONFLICT(from_id, to_id)
\* DO UPDATE SET type = excluded.type
upsert_dependency(rows, from_id, to_id, dep_type) ==
    IF \E i \in 1..Len(rows) : DependencyKey(rows[i]) = <<from_id, to_id>>
    THEN [i \in 1..Len(rows) |->
            IF DependencyKey(rows[i]) = <<from_id, to_id>>
            THEN [rows[i] EXCEPT !.type = dep_type] ELSE rows[i]]
    ELSE Append(rows, [from_id |-> from_id, to_id |-> to_id, type |-> dep_type])

\* The place of a mission id in the order of ORDER BY on text.
IdRank(mission_id) == CHOOSE i \in 1..Len(SeededIds) : SeededIds[i] = mission_id

\* _load_backlog: the dependencies in the order of from_id, to_id. The store
\* of this model holds no sprint and no prompt mapping, so the sprints and
\* prompts of the document are empty lists.
load_backlog(rows) ==
    LET n == Len(rows)
        Before(i, j) ==
            \/ IdRank(rows[i].from_id) < IdRank(rows[j].from_id)
            \/ /\ rows[i].from_id = rows[j].from_id
               /\ \/ IdRank(rows[i].to_id) < IdRank(rows[j].to_id)
                  \/ rows[i].to_id = rows[j].to_id /\ i < j
    IN  [sprints |-> <<>>,
         prompts |-> <<>>,
         dependencies |->
            [k \in 1..n |->
                LET i == CHOOSE i \in 1..n :
                            Cardinality({j \in 1..n : j # i /\ Before(j, i)}) = k - 1
                IN  [from |-> rows[i].from_id, to |-> rows[i].to_id, type |-> rows[i].type]]]

\* _mission_depends: the two guards, the upsert in its transaction, then
\* _sync_backlog, which leaves with SystemExit where yaml is not installed.
MissionDepends ==
    /\ budget > 0
    /\ UNCHANGED <<store, now, ticks>>
    /\ \E from_id \in CallIds, to_id \in CallIds, dep_type \in DepTypes,
          yaml_installed \in BOOLEAN :
        LET call == [op |-> "mission_depends", from_id |-> from_id, to_id |-> to_id,
                     dep_type |-> dep_type]
            ended(ok, error, committed) ==
                [field \in DOMAIN call \cup {"ok", "error", "committed"} |->
                    IF field = "ok" THEN ok
                    ELSE IF field = "error" THEN error
                    ELSE IF field = "committed" THEN committed ELSE call[field]]
        IN  /\ budget' = budget - 1
            /\ IF from_id = to_id
               THEN /\ last' = ended(FALSE, "distinct_missions", FALSE)
                    /\ UNCHANGED <<mission_dependencies, files, faults>>
               ELSE IF ~MissionFound(CurrentDb, from_id) \/ ~MissionFound(CurrentDb, to_id)
               THEN /\ last' = ended(FALSE, "not_found", FALSE)
                    /\ UNCHANGED <<mission_dependencies, files, faults>>
               ELSE \E failAt \in FailPoints(1) :
                    IF failAt < 1
                    THEN /\ last' = ended(FALSE, "store_error", FALSE)
                         /\ faults' = faults - 1
                         /\ UNCHANGED <<mission_dependencies, files>>
                    ELSE /\ mission_dependencies' =
                                upsert_dependency(mission_dependencies, from_id, to_id, dep_type)
                         /\ faults' = faults
                         /\ IF yaml_installed
                            THEN /\ files' = [files EXCEPT !.backlog =
                                                <<load_backlog(mission_dependencies')>>]
                                 /\ last' = ended(TRUE, "", TRUE)
                            ELSE /\ files' = files
                                 /\ last' = ended(FALSE, "yaml_missing", TRUE)

\* A run of dependency insertions on the seeded missions, on a store that may
\* raise an error.
InitDepends ==
    /\ missions = SeedMissions
    /\ session_events = <<>>
    /\ contexts = EmptyDict
    /\ context_snapshots = <<>>
    /\ now = 1
    /\ budget = MaxDependsOps
    /\ ticks = 0
    /\ faults = MaxFaults
    /\ last = NoCall
    /\ files = NoFiles
    /\ mission_dependencies = <<>>

NextDepends == MissionDepends
SpecDepends == InitDepends /\ [][NextDepends]_vars

\* A run of the migration's merge functions.
InitMerge ==
    /\ missions = SeedMissions
    /\ session_events = <<>>
    /\ contexts = EmptyDict
    /\ context_snapshots = <<>>
    /\ now = 1
    /\ budget = MaxMergeOps
    /\ ticks = 0
    /\ faults = 0
    /\ last = NoCall
    /\ files = NoFiles
    /\ mission_dependencies = <<>>

NextMerge == MergeSessionsCall \/ MergeContextCall
SpecMerge == InitMerge /\ [][NextMerge]_vars

Next ==
    \/ StartMission
    \/ CompleteMission
    \/ BlockMission
    \/ NextMission

Spec == Init /\ [][Next]_vars
SpecFaults == InitFaults /\ [][Next]_vars
NextHistory == WarmUp \/ Next
SpecHistory == InitHistory /\ [][NextHistory]_vars

SpecBacklog == InitBacklog /\ [][Next]_vars

\* A run of lifecycle calls and database syncs of a migration on one store.
InitMigrate ==
    /\ missions = SeedMissions
    /\ session_events = <<>>
    /\ contexts = EmptyDict
    /\ context_snapshots = <<>>
    /\ now = 1
    /\ budget = MaxMigrateOps
    /\ ticks = MaxTicks
    /\ faults = 0
    /\ last = NoCall
    /\ files = NoFiles
    /\ mission_dependencies = <<>>

NextMigrate == Next \/ SyncDatabase
SpecMigrate == InitMigrate /\ [][NextMigrate]_vars

\* A run of lifecycle calls whose callers pass a ts of their own, earlier than
\* the clock, or none, on a store that may raise an error.
SuppliedTs == {NoTime, <<0>>}

InitSupplied ==
    /\ missions = SeedMissions
    /\ session_events = <<>>
    /\ contexts = EmptyDict
    /\ context_snapshots = <<>>
    /\ now = 1
    /\ budget = MaxSuppliedOps
    /\ ticks = MaxTicks
    /\ faults = MaxFaults
    /\ last = NoCall
    /\ files = NoFiles
    /\ mission_dependencies = <<>>

StartMissionAt == StartCall(SuppliedTs)
CompleteMissionAt == CompleteCall(SuppliedTs)
BlockMissionAt == BlockCall(SuppliedTs)
NextSupplied == StartMissionAt \/ CompleteMissionAt \/ BlockMissionAt
SpecSupplied == InitSupplied /\ [][NextSupplied]_vars

NextStore == SetContextCall
SpecStore == InitStore /\ [][NextStore]_vars

\* ---------------------------------------------------------------- properties
LifecycleOps == {"start", "complete", "block"}
RowOf(mission_id) == missions[MissionRow(CurrentDb, mission_id)]
SnapshotsOf(context_id) ==
    SelectSeq(context_snapshots, LAMBDA r : r.context_id = context_id)

\* C1: in every reachable state each mission's completed_at is non-null if and
\* only if its status is Completed.
C1_CompletedAtIffCompleted ==
    \A i \in 1..Len(missions) :
        (missions[i].completed_at # NoTime) <=> (missions[i].status = "Completed")

\* C2: right after a successful complete(m), m is Completed and its
\* completed_at is the call's timestamp; right after a successful block(m), m
\* is Blocked and its completed_at is null; whatever m's status was before.
C2_AfterCompleteAndBlock ==
    /\ (last.ok /\ last.op = "complete") =>
            /\ RowOf(last.mission).status = "Completed"
            /\ RowOf(last.mission).completed_at = <<last.ts>>
    /\ (last.ok /\ last.op = "block") =>
            /\ RowOf(last.mission).status = "Blocked"
            /\ RowOf(last.mission).completed_at = NoTime

\* A mission that was Completed has just been blocked.
C2_Witness ==
    /\ last.ok /\ last.op = "block" /\ last.prior = "Completed"
    /\ RowOf(last.mission).completed_at = NoTime

\* C3: once a mission is Completed, no start, complete or block, on it or on
\* another mission, changes its status.
C3_CompletedIsTerminal ==
    [][\A i \in 1..Len(missions) :
            missions[i].status = "Completed" => missions'[i].status = "Completed"]_vars

\* C4: a transition whose transaction fails at any statement leaves the store
\* as it was; one that succeeds shows the mission update, the promotion, one
\* session event, both context pointers and both snapshots together.
C4_TransitionsAreAtomic ==
    [][/\ (~last'.ok /\ last'.error = "store_error") => store' = store
       /\ (last'.ok /\ last'.op \in LifecycleOps) =>
            LET after == Db(missions', session_events', contexts', context_snapshots')
            IN  /\ Len(session_events') = Len(session_events) + 1
                /\ session_events'[Len(session_events')].mission = last'.mission
                /\ missions'[MissionRow(after, last'.mission)].status =
                        (CASE last'.op = "start" -> "In Progress"
                           [] last'.op = "complete" -> "Completed"
                           [] last'.op = "block" -> "Blocked")
                /\ last'.next_mission # Null =>
                        missions'[MissionRow(after, last'.next_mission)].status
                            \in {"Current", "In Progress"}
                /\ \A id \in ContextIds :
                        /\ get_context(after, id).found
                        /\ get_context(after, id).payload.working_memory.last_session = last'.ts
                        /\ contexts'[id].updated_at = now'
                /\ Len(context_snapshots') = Len(context_snapshots) + 2]_vars

\* A transaction has just failed after some of its statements had written.
C4_Witness == ~last.ok /\ last.error = "store_error" /\ last.dirty

\* C5: start, complete and block with an id that is not in the missions table
\* fail with "mission not found" and leave every table as it was.
C5_UnknownMissionFails ==
    [][/\ (last'.op \in LifecycleOps /\ "mission" \in DOMAIN last'
            /\ ~MissionFound(CurrentDb, last'.mission))
          => (~last'.ok /\ last'.error = "not_found" /\ store' = store)
       /\ (last'.error = "not_found")
          => (~MissionFound(CurrentDb, last'.mission) /\ store' = store)]_vars

\* An unknown id has just been refused in a store that already holds events.
C5_Witness ==
    /\ ~last.ok /\ last.error = "not_found" /\ last.op = "block"
    /\ Len(session_events) > 0

\* C6: session_history holds at most 50 entries, and they are the newest
\* min(n, 50) of the n transitions recorded so far, newest last.
HistoryEntry(event) ==
    [mission |-> event.mission, agent |-> event.agent, summary |-> event.summary,
     action |-> event.action, ts |-> event.ts]

C6_SessionHistoryIsNewestFifty ==
    \A id \in DOMAIN contexts :
        LET history == get_context(CurrentDb, id).payload.working_memory.session_history
            n == Len(session_events)
            kept == IF n < HistoryCap THEN n ELSE HistoryCap
        IN  /\ Len(history) <= HistoryCap
            /\ Len(history) = kept
            /\ \A i \in 1..kept :
                    history[i] = HistoryEntry(session_events[n - kept + i])

\* More than 50 transitions were recorded and the history is full.
C6_Witness ==
    /\ Len(session_events) > HistoryCap
    /\ \A id \in ContextIds :
            /\ id \in DOMAIN contexts
            /\ Len(get_context(CurrentDb, id).payload.working_memory.session_history)
                    = HistoryCap

\* C7: two set_context calls in a row for the same context id, with payloads
\* of the same canonical form that the newest snapshot of that id does not
\* already hold, write one snapshot row: the first append returns true, the
\* second false.
C7_PersistTwiceWritesOnce ==
    (/\ last.op = "set_context" /\ last.ok /\ last.snapshot
     /\ last.prev # <<>>
     /\ last.prev[1].snapshot
     /\ last.prev[1].fresh
     /\ last.prev[1].context_id = last.context_id
     /\ canonical_json(last.prev[1].payload) = canonical_json(last.payload))
        => (last.prev[1].appended /\ ~last.appended)

\* C8 as stated: a context id has at most one snapshot row per content hash.
C8_OneRowPerHash ==
    \A i, j \in 1..Len(context_snapshots) :
        (/\ i # j
         /\ context_snapshots[i].context_id = context_snapshots[j].context_id)
            => context_snapshots[i].content_hash # context_snapshots[j].content_hash

\* C8 as amended: a snapshot row is appended only when its hash differs from
\* the hash of a row that the latest-snapshot query can return for its context
\* id at that moment; the same hash can come back after another one.
C8_RowDiffersFromLatest ==
    \A i \in 1..Len(context_snapshots) :
        LET earlier == SubSeq(context_snapshots, 1, i - 1)
            latest == LatestSnapshots(earlier, context_snapshots[i].context_id)
        IN  \/ latest = {}
            \/ \E j \in latest :
                    earlier[j].content_hash # context_snapshots[i].content_hash

\* A context id holds three rows whose hashes are A, B, A.
C8_Witness ==
    \E id \in ContextIds :
        LET rows == SnapshotsOf(id)
        IN  \E i \in 1..Len(rows) :
                /\ i + 2 <= Len(rows)
                /\ rows[i].content_hash = rows[i + 2].content_hash
                /\ rows[i].content_hash # rows[i + 1].content_hash

\* C9: after set_context(id, p) returns, get_context(id) is p, whether or not
\* a snapshot row was appended.
C9_PointerAlwaysWritten ==
    (last.op = "set_context" /\ last.ok)
        => get_context(CurrentDb, last.context_id) = [found |-> TRUE, payload |-> last.payload]

\* The hash gate has just skipped a payload other than the one the pointer held.
C9_Witness ==
    /\ last.op = "set_context" /\ last.ok /\ last.snapshot /\ ~last.appended
    /\ last.prev # <<>>
    /\ last.prev[1].context_id = last.context_id
    /\ last.prev[1].payload # last.payload

\* C10: next_candidate never returns a Completed mission, and returns a
\* Queued, Current or In Progress mission whenever there is one.
C10_CandidateIsActive ==
    (last.op = "next_mission") =>
        LET active == {i \in 1..Len(missions) : missions[i].status \in CandidateStatuses}
        IN  /\ last.candidate # Null => RowOf(last.candidate).status # "Completed"
            /\ active # {} => \E i \in active : missions[i].id = last.candidate

\* A candidate was returned while another mission is Completed.
C10_Witness ==
    /\ last.op = "next_mission" /\ last.candidate # Null
    /\ \E i \in 1..Len(missions) : missions[i].status = "Completed"

\* C11 as stated: whenever a mission that is not Completed exists, Blocked
\* ones included, next_candidate returns the one with the least (rank,
\* insertion position) under In Progress(0) < Current(1) < Queued(2) < Blocked(3).
SpecRank(status) ==
    CASE status = "In Progress" -> 0
      [] status = "Current" -> 1
      [] status = "Queued" -> 2
      [] status = "Blocked" -> 3
      [] OTHER -> 4

C11_CandidateIsBestNonCompleted ==
    (last.op = "next_mission") =>
        LET open == {i \in 1..Len(missions) : missions[i].status # "Completed"}
        IN  open # {} =>
                \E i \in open :
                    /\ missions[i].id = last.candidate
                    /\ \A j \in open :
                        \/ SpecRank(missions[i].status) < SpecRank(missions[j].status)
                        \/ /\ SpecRank(missions[i].status) = SpecRank(missions[j].status)
                           /\ i <= j

\* C11 as amended: next_candidate returns the oldest In Progress mission if
\* there is one, else the oldest Current one, else the oldest Queued one, and
\* none when every mission is Blocked or Completed.
FirstWith(status) ==
    LET hits == {i \in 1..Len(missions) : missions[i].status = status}
    IN  IF hits = {} THEN Null
        ELSE missions[CHOOSE i \in hits : \A j \in hits : i <= j].id

C11_CandidateIsOldestOfBestActiveStatus ==
    (last.op = "next_mission") =>
        last.candidate =
            (IF FirstWith("In Progress") # Null THEN FirstWith("In Progress")
             ELSE IF FirstWith("Current") # Null THEN FirstWith("Current")
             ELSE FirstWith("Queued"))

\* The candidate is not the oldest active mission, and a Blocked mission
\* precedes it in the table.
C11_Witness ==
    /\ last.op = "next_mission" /\ last.candidate # Null
    /\ \E i, j \in 1..Len(missions) :
            /\ i < MissionRow(CurrentDb, last.candidate)
            /\ j < MissionRow(CurrentDb, last.candidate)
            /\ missions[i].status = "Blocked"
            /\ missions[j].status \in CandidateStatuses

\* C12: complete(m, promote_next=true) promotes exactly the oldest mission
\* that is Queued once m is Completed, to Current, or to In Progress when
\* immediate; it returns that id and, no hint being supplied, records
\* "<id> is now <status>" in the event.  With no Queued mission nothing is
\* promoted, no id is returned and no hint is recorded.
C12_PromotesOldestQueued ==
    [][(last'.op = "complete" /\ last'.ok /\ "promote_next" \in last'.flags) =>
        LET m == MissionRow(CurrentDb, last'.mission)
            queued == {i \in 1..Len(missions) : i # m /\ missions[i].status = "Queued"}
            event == session_events'[Len(session_events')]
            target == IF "immediate" \in last'.flags THEN "In Progress" ELSE "Current"
        IN  IF queued = {}
            THEN /\ last'.next_mission = Null
                 /\ event.next_hint = NoHint
                 /\ \A i \in 1..Len(missions) : i # m => missions'[i] = missions[i]
            ELSE LET oldest == CHOOSE i \in queued : \A j \in queued : i <= j
                 IN  /\ last'.next_mission = missions[oldest].id
                     /\ missions'[oldest].status = target
                     /\ event.next_hint = <<missions[oldest].id, "is now", target>>
                     /\ \A i \in 1..Len(missions) :
                            (i # m /\ i # oldest) => missions'[i] = missions[i]]_vars

\* The third mission was promoted because the second one, older, is Blocked.
C12_Witness ==
    /\ last.op = "complete" /\ last.ok /\ "promote_next" \in last.flags
    /\ last.mission = SeededIds[1]
    /\ last.next_mission = SeededIds[3]
    /\ missions[2].status = "Blocked"
    /\ missions[3].status = "Current"

\* The documents as a reader of the store gets them.
Blockers ==
    Get(NextSessionOf(load_context(CurrentDb, "master_context")), "blockers", <<>>)
BlockedMissions(context_id) ==
    Get(Get(load_context(CurrentDb, context_id), "working_memory", EmptyDict),
        "blocked_missions", <<>>)
HasBlocker(mission_id) == \E k \in 1..Len(Blockers) : Blockers[k].mission = mission_id

\* C13: after start(m), also when m was blocked before and other missions
\* were operated on in between, the master context's blockers hold no entry
\* for m and neither context lists m in blocked_missions.
C13_StartClearsBlocker ==
    (last.op = "start" /\ last.ok) =>
        /\ ~HasBlocker(last.mission)
        /\ \A id \in ContextIds : ~SeqContains(BlockedMissions(id), last.mission)

\* m was blocked, then another mission was blocked, then m was started: the
\* other mission's blocker is still there.
C13_Witness ==
    /\ last.op = "start" /\ last.ok /\ last.prior = "Blocked"
    /\ Len(session_events) = 3
    /\ session_events[1].action = "blocked" /\ session_events[1].mission = last.mission
    /\ session_events[2].action = "blocked" /\ session_events[2].mission # last.mission
    /\ HasBlocker(session_events[2].mission)
    /\ \A id \in ContextIds : BlockedMissions(id) = <<session_events[2].mission>>

\* C14: the master context's blockers hold at most one entry per mission id,
\* and after block(m) the entry of m is the one of this call: its timestamp,
\* reason and needs.
LastEvent == session_events[Len(session_events)].raw_event.json

C14_OneBlockerPerMission ==
    /\ \A k, l \in 1..Len(Blockers) :
            Blockers[k].mission = Blockers[l].mission => k = l
    /\ (last.op = "block" /\ last.ok) =>
            \E k \in 1..Len(Blockers) :
                /\ Blockers[k].mission = last.mission
                /\ Blockers[k].recorded_at = last.ts
                /\ Blockers[k].reason = LastEvent.reason
                /\ Blockers[k].needs = LastEvent.needs

\* A mission blocked a second time, a second later and with other needs.
C14_Witness ==
    /\ last.op = "block" /\ last.ok /\ last.prior = "Blocked"
    /\ Len(session_events) = 2
    /\ session_events[1].raw_event.json.mission = last.mission
    /\ session_events[1].raw_event.json.needs # LastEvent.needs
    /\ session_events[1].ts # last.ts
    /\ Len(Blockers) = 1

\* C15: a mission's metadata holds blocked_at, blocked_reason or blocked_needs
\* only while its status is Blocked: a start or complete of a Blocked mission
\* removes them.
BlockedFields == {"blocked_at", "blocked_reason", "blocked_needs"}

C15_BlockedFieldsOnlyWhileBlocked ==
    \A i \in 1..Len(missions) :
        (DOMAIN parse_metadata(missions[i].metadata) \cap BlockedFields # {})
            => missions[i].status = "Blocked"

\* The composite keys of a session list, the first entry with a key, and an
\* entry without its __raw__ text.
KeysOf(entries) == {SessionKey(entries[i]) : i \in 1..Len(entries)}

FirstVariant(entries, key) ==
    entries[CHOOSE i \in 1..Len(entries) :
                /\ SessionKey(entries[i]) = key
                /\ \A j \in 1..(i - 1) : SessionKey(entries[j]) # key]

\* C16: a session merge returns a list that holds exactly one entry for every
\* composite key (session id, timestamp, type, summary) of the old or the new
\* list and no other entry, and for a key of the new list the entry is the new
\* list's variant.
C16_MergeKeepsOneEntryPerKey ==
    last.op = "merge_sessions" =>
        /\ last.ok
        /\ KeysOf(last.merged_entries) = KeysOf(last.old_entries) \cup KeysOf(last.new_entries)
        /\ \A i, j \in 1..Len(last.merged_entries) :
                SessionKey(last.merged_entries[i]) = SessionKey(last.merged_entries[j]) => i = j
        /\ \A i \in 1..Len(last.merged_entries) :
                LET key == SessionKey(last.merged_entries[i])
                IN  SansRaw(last.merged_entries[i]) =
                        SansRaw(IF key \in KeysOf(last.new_entries)
                                THEN FirstVariant(last.new_entries, key)
                                ELSE FirstVariant(last.old_entries, key))

\* A document without the migration-marker fields metadata.migrated_at and
\* metadata.source_version, and without a metadata object that holds nothing
\* else.
WithoutMarker(doc) ==
    IF "metadata" \in DOMAIN doc /\ JType(doc["metadata"]) = "obj"
    THEN LET rest == Pop(Pop(JVal(doc["metadata"]), "migrated_at"), "source_version")
         IN  IF DOMAIN rest = {} THEN Pop(doc, "metadata")
             ELSE Put(doc, "metadata", JObj(rest))
    ELSE doc

\* C17: merging a project or a master document with itself returns a document
\* equal to it except for metadata.migrated_at and metadata.source_version.
C17_MergeWithItselfChangesMarkerOnly ==
    (last.op = "merge_context" /\ last.old = last.new) =>
        /\ last.ok
        /\ WithoutMarker(last.merged) = WithoutMarker(last.new)

\* The merged value keeps the destination's value: a non-blank string and a
\* non-zero number are unchanged, the items of a non-empty list are a prefix
\* of the merged list, and every field of a non-empty object is kept in the
\* merged object.
RECURSIVE Keeps(_, _)
Keeps(destination, merged) ==
    CASE JType(destination) = "null" -> TRUE
      [] JType(destination) = "str" ->
            IsBlank(JVal(destination)) \/ merged = destination
      [] JType(destination) = "num" ->
            JVal(destination) = 0 \/ merged = destination
      [] JType(destination) = "list" ->
            \/ JVal(destination) = <<>>
            \/ /\ JType(merged) = "list"
               /\ Len(JVal(merged)) >= Len(JVal(destination))
               /\ SubSeq(JVal(merged), 1, Len(JVal(destination))) = JVal(destination)
      [] JType(destination) = "obj" ->
            \/ DOMAIN JVal(destination) = {}
            \/ /\ JType(merged) = "obj"
               /\ \A key \in DOMAIN JVal(destination) :
                    /\ key \in DOMAIN JVal(merged)
                    /\ Keeps(JVal(destination)[key], JVal(merged)[key])

\* C18: a context merge returns a document that holds, at every field path
\* where the destination (new) document holds a non-empty value, that value,
\* and for a non-empty destination list a list that begins with its items.
C18_DestinationWins ==
    last.op = "merge_context" =>
        /\ last.ok
        /\ Keeps(JObj(last.new), JObj(last.merged))

\* C19: a session merge and a context merge of parsed inputs return a result;
\* neither raises, whatever the types and values of the two sides.
C19_MergeNeverRaises ==
    last.op \in {"merge_sessions", "merge_context"} => last.ok

\* Two rows of the event log are the same row: their raw_event texts are of
\* the same kind, and all their columns are equal.
SameRow(a, b) == a.raw_event = b.raw_event /\ a = b

\* C20: the session event log is append-only: after every operation (start,
\* complete, block, or the database sync of a migration) the log before it is
\* a prefix of the log after it.
C20_EventLogIsAppendOnly ==
    [][/\ Len(session_events') >= Len(session_events)
       /\ \A i \in 1..Len(session_events) : SameRow(session_events'[i], session_events[i])]_vars

\* C21: a successful start(m) leaves m In Progress and a successful
\* complete(m) without promote_next leaves m Completed, whatever m's status
\* was; start, block and complete without promote_next leave the row of every
\* other mission as it was.
C21_OnlyTheOperatedRowChanges ==
    [][(last'.ok /\ last'.op \in LifecycleOps /\ "promote_next" \notin last'.flags) =>
            /\ Len(missions') = Len(missions)
            /\ last'.op = "start" =>
                    missions'[MissionRow(CurrentDb, last'.mission)].status = "In Progress"
            /\ last'.op = "complete" =>
                    missions'[MissionRow(CurrentDb, last'.mission)].status = "Completed"
            /\ \A i \in 1..Len(missions) :
                    missions[i].id # last'.mission => missions'[i] = missions[i]]_vars

\* A Completed mission has just been started, next to a mission that is
\* Blocked.
C21_Witness ==
    /\ last.ok /\ last.op = "start" /\ last.prior = "Completed"
    /\ RowOf(last.mission).status = "In Progress"
    /\ \E i \in 1..Len(missions) : missions[i].status = "Blocked"

\* The (action, status) pair of the event each operation logs.
EventKind(op) ==
    CASE op = "start" -> <<"start", "in_progress">>
      [] op = "complete" -> <<"complete", "completed">>
      [] op = "block" -> <<"blocked", "blocked">>

\* C22: a successful start, complete or block appends exactly one session
\* event, for the operated mission and with the operation's action and status,
\* at the end of the log whatever its timestamp; a failed operation leaves the
\* log as it was.
C22_OneEventPerCommitInCommitOrder ==
    [][/\ (last'.ok /\ last'.op \in LifecycleOps) =>
            /\ Len(session_events') = Len(session_events) + 1
            /\ SubSeq(session_events', 1, Len(session_events)) = session_events
            /\ LET row == session_events'[Len(session_events')]
               IN  /\ row.mission = last'.mission
                   /\ <<row.action, row.status>> = EventKind(last'.op)
                   /\ row.ts = last'.ts
       /\ (~last'.ok /\ last'.op \in LifecycleOps) => session_events' = session_events]_vars

\* A call with an earlier timestamp has just committed after one with a later
\* timestamp: the log holds the later timestamp first.
C22_Witness ==
    /\ last.ok /\ last.op \in LifecycleOps
    /\ \E i, j \in 1..Len(session_events) :
            i < j /\ session_events[i].ts > session_events[j].ts

\* The value of a counter of a stored context document: int(value or 0).
CounterOf(db, context_id, section, field) ==
    Get(Get(load_context(db, context_id), section, EmptyDict), field, 0)

\* C23: a successful start, complete or block adds exactly 1 to
\* working_memory.session_count and to context_health.sessions_since_reset of
\* the project and of the master context; a failed one changes neither, and no
\* step makes either smaller.
C23_CountersStepByOne ==
    [][\A context_id \in ContextIds :
        \A counter \in {<<"working_memory", "session_count">>,
                        <<"context_health", "sessions_since_reset">>} :
            LET before == CounterOf(CurrentDb, context_id, counter[1], counter[2])
                after == CounterOf(Db(missions', session_events', contexts', context_snapshots'),
                                   context_id, counter[1], counter[2])
            IN  /\ after >= before
                /\ (last'.ok /\ last'.op \in LifecycleOps) => after = before + 1
                /\ (~last'.ok /\ last'.op \in LifecycleOps) => after = before]_vars

\* A transition has just failed after writing, on documents whose counters had
\* been raised by an earlier transition.
C23_Witness ==
    /\ ~last.ok /\ last.error = "store_error" /\ last.dirty
    /\ \A context_id \in ContextIds :
            /\ CounterOf(CurrentDb, context_id, "working_memory", "session_count") = 1
            /\ CounterOf(CurrentDb, context_id, "context_health", "sessions_since_reset") = 1

\* working_memory of a stored context document.
WorkingMemory(context_id) == load_context(CurrentDb, context_id).working_memory

\* C24: right after a successful complete(m), active_mission of both contexts
\* is the promoted mission's id when the call was immediate and promoted a
\* mission, and null otherwise, and last_completed_mission is m; right after a
\* successful start(m) active_mission is m, and after a block it is null.
C24_ActiveMissionFollowsTheCall ==
    (last.ok /\ last.op \in LifecycleOps) =>
        \A context_id \in ContextIds :
            /\ last.op = "start" =>
                    Get(WorkingMemory(context_id), "active_mission", Null) = last.mission
            /\ last.op = "block" =>
                    /\ "active_mission" \in DOMAIN WorkingMemory(context_id)
                    /\ WorkingMemory(context_id).active_mission = Null
            /\ last.op = "complete" =>
                    /\ "active_mission" \in DOMAIN WorkingMemory(context_id)
                    /\ WorkingMemory(context_id).active_mission =
                            (IF "immediate" \in last.flags THEN last.next_mission ELSE Null)
                    /\ Get(WorkingMemory(context_id), "last_completed_mission", Null)
                            = last.mission

\* A started mission has just been completed with an immediate promotion of
\* the next Queued mission, which is now the active mission.
C24_Witness ==
    /\ last.ok /\ last.op = "complete" /\ last.prior = "In Progress"
    /\ "immediate" \in last.flags /\ last.next_mission # Null
    /\ WorkingMemory("master_context").active_mission = last.next_mission

NoDuplicates(list) == \A i, j \in 1..Len(list) : list[i] = list[j] => i = j

\* next_session_context of the stored master context.
MasterNextSession == NextSessionOf(load_context(CurrentDb, "master_context"))

\* C25: after any sequence of lifecycle operations the master's
\* important_reminders and when_we_resume hold no entry twice, and
\* blocked_missions of either context holds no mission id twice.
C25_NoDuplicateNotes ==
    /\ NoDuplicates(Get(MasterNextSession, "important_reminders", <<>>))
    /\ NoDuplicates(Get(MasterNextSession, "when_we_resume", <<>>))
    /\ \A context_id \in DOMAIN contexts :
            NoDuplicates(Get(WorkingMemory(context_id), "blocked_missions", <<>>))

\* A mission has just been blocked for the second time, with the reason and
\* the needs of the first time.
C25_Witness ==
    /\ last.ok /\ last.op = "block"
    /\ \E i, j \in 1..Len(session_events) :
            /\ i < j /\ j = Len(session_events)
            /\ session_events[i].action = "blocked" /\ session_events[j].action = "blocked"
            /\ session_events[i].mission = session_events[j].mission
            /\ session_events[i].raw_event.json.reason = session_events[j].raw_event.json.reason
            /\ session_events[i].raw_event.json.needs = session_events[j].raw_event.json.needs
            /\ session_events[j].raw_event.json.needs # <<>>
    /\ Get(MasterNextSession, "when_we_resume", <<>>) # <<>>

\* The reminders and the resume notes of the stored master context.
MasterNotes ==
    Get(MasterNextSession, "important_reminders", <<>>)
        \o Get(MasterNextSession, "when_we_resume", <<>>)

\* C26 as stated: right after a successful start(m) or complete(m) the master's
\* next_session_context holds no blocker entry for m and no reminder or resume
\* note whose text contains m's id, the "Pick up" note of the promoted mission
\* included.
C26_NoNoteMentionsTheMission ==
    (last.ok /\ last.op \in {"start", "complete"}) =>
        /\ ~HasBlocker(last.mission)
        /\ \A i \in 1..Len(MasterNotes) : ~Mentions(MasterNotes[i], last.mission)

\* C26 as amended: right after a successful start(m) or complete(m) the master's
\* next_session_context holds no blocker entry for m, and the only note whose
\* text contains m's id is the "Pick up" note that complete(m) added for the
\* mission it promoted.
C26_OnlyThePickUpNoteMentionsTheMission ==
    (last.ok /\ last.op \in {"start", "complete"}) =>
        /\ ~HasBlocker(last.mission)
        /\ \A i \in 1..Len(MasterNotes) :
                Mentions(MasterNotes[i], last.mission) =>
                    /\ last.op = "complete"
                    /\ last.next_mission # Null
                    /\ MasterNotes[i] = PickUpText(last.next_mission)

\* A blocked mission has just been completed and the promoted mission's id
\* contains its id: the blocker and its notes are gone, the "Pick up" note is
\* there.
C26_Witness ==
    /\ last.ok /\ last.op = "complete" /\ last.prior = "Blocked"
    /\ last.next_mission # Null
    /\ IsSubstring(Chars[last.mission], Chars[last.next_mission])
    /\ SeqContains(MasterNotes, PickUpText(last.next_mission))
    /\ ~HasBlocker(last.mission)

\* The place of a merged entry among the combined entries: those of the new
\* list in their order, then those of the old list.
CombinedIndex(entry) ==
    LET combined == FirstPerKey(last.new_entries \o last.old_entries, <<>>)
    IN  CHOOSE i \in 1..Len(combined) : SessionKey(combined[i]) = SessionKey(entry)

C28_MergeKeepsTheOriginalLine ==
    (last.op = "merge_sessions" /\ last.ok) =>
        LET combined == FirstPerKey(last.new_entries \o last.old_entries, <<>>)
        IN  \A k \in 1..Len(last.merged_entries) :
                last.merged_entries[k].raw
                    = combined[CombinedIndex(last.merged_entries[k])].raw

\* A value the destination never captured: null, a blank text, zero, an empty
\* list or an empty object.
IsEmpty(value) ==
    IF JType(value) = "str" THEN IsBlank(JVal(value)) ELSE ~Truthy(value)

\* merged holds the non-empty values of source at every field path where
\* destination has nothing or an empty value, through nested objects.
RECURSIVE Backfilled(_, _, _)
Backfilled(source, destination, merged) ==
    \A key \in DOMAIN source :
        LET value == source[key]
            current == JGet(destination, key)
        IN  IF IsEmpty(value) THEN TRUE
            ELSE IF JType(value) = "obj"
            THEN (IsEmpty(current) \/ JType(current) = "obj") =>
                    /\ key \in DOMAIN merged
                    /\ JType(merged[key]) = "obj"
                    /\ Backfilled(JVal(value),
                                  IF JType(current) = "obj" THEN JVal(current) ELSE EmptyDict,
                                  JVal(merged[key]))
            ELSE IsEmpty(current) => (key \in DOMAIN merged /\ merged[key] = value)

\* C29: a master context merge returns a document that holds the source's
\* (old) value at every field path where the source holds a non-empty value
\* and the destination (new) holds none or an empty one, through nested
\* objects.
C29_MasterMergeBackfills ==
    (last.op = "merge_context" /\ last.kind = "master") =>
        /\ last.ok
        /\ Backfilled(last.old, last.new, last.merged)

\* A line that is not blank, is not JSON and has none of the fallback formats
\* the loader accepts: a loose mapping, or a YAML mapping where yaml is
\* installed.
Unparseable(line, yaml_installed) ==
    \/ line.form \in {"plain", "broken"}
    \/ line.form = "yaml" /\ ~yaml_installed

HasUnparseable(lines, yaml_installed) ==
    \E i \in 1..Len(lines) : Unparseable(lines[i], yaml_installed)

\* C30: an invocation of the migration that meets an unparseable line in the
\* source's or the target's sessions file fails, and leaves every file, every
\* backup and every table of the store as it was.
C30_UnparseableLineFailsTheMigration ==
    [][(last'.op = "migrate"
            /\ HasUnparseable(last'.source_lines \o last'.target_lines, last'.yaml_installed))
        => (/\ ~last'.ok
            /\ files' = files
            /\ store' = store)]_vars

\* An invocation that was to back up and write the files and to synchronise
\* the store has failed on a source file with an unparseable line after a
\* readable one, in a workspace that holds all three files.
C30_Witness ==
    /\ last.op = "migrate" /\ ~last.ok /\ last.error = "ValueError"
    /\ ~last.dry_run /\ ~last.skip_files /\ ~last.no_backup /\ last.sync_db
    /\ Len(last.source_lines) = 2
    /\ last.source_lines[1].form = "dumps"
    /\ Unparseable(last.source_lines[2], last.yaml_installed)
    /\ files.sessions # <<>> /\ files.project # <<>> /\ files.master # <<>>
    /\ files.sessions_backups = EmptyDict
    /\ contexts = EmptyDict

\* C31: every dependency insertion leaves at most one row per ordered pair
\* (from, to); an insertion that commits leaves the pair's row with its label
\* and every other row as it was; an insertion with from = to, or naming a
\* mission that does not exist, fails and leaves the table unchanged.
C31_OneRowPerPairLatestLabel ==
    [][last'.op = "mission_depends" =>
        LET rows == mission_dependencies'
            pair == <<last'.from_id, last'.to_id>>
            missing == \E id \in {last'.from_id, last'.to_id} : ~MissionFound(CurrentDb, id)
        IN  /\ \A i, j \in 1..Len(rows) :
                    DependencyKey(rows[i]) = DependencyKey(rows[j]) => i = j
            /\ (last'.from_id = last'.to_id \/ missing) =>
                    (~last'.ok /\ ~last'.committed /\ rows = mission_dependencies)
            /\ last'.committed =>
                    /\ \E i \in 1..Len(rows) :
                            DependencyKey(rows[i]) = pair /\ rows[i].type = last'.dep_type
                    /\ \A i \in 1..Len(mission_dependencies) :
                            DependencyKey(mission_dependencies[i]) # pair =>
                                \E j \in 1..Len(rows) : rows[j] = mission_dependencies[i]
      ]_vars

\* The pair that was inserted first has been inserted again, after a row of
\* another pair; the table still holds two rows.
C31_Witness ==
    /\ last.op = "mission_depends" /\ last.committed
    /\ Len(mission_dependencies) = 2
    /\ mission_dependencies[1].from_id = last.from_id
    /\ mission_dependencies[1].to_id = last.to_id
    /\ mission_dependencies[1].type = "Relates"
    /\ budget = 0

\* C32: a start, complete or block of a mission whose stored metadata is
\* not the text of a JSON object fails, and leaves the store as it was.
C32_MalformedMetadataAborts ==
    [][(/\ last'.op \in {"start", "complete", "block"}
        /\ MissionFound(CurrentDb, last'.mission)
        /\ missions[MissionRow(CurrentDb, last'.mission)].metadata.kind = "text")
       => (~last'.ok /\ store' = store)]_vars

\* The mission that working_memory.active_mission of a stored context names,
\* or Null where the context, its working memory or the field is missing.
ActiveMission(context_id) ==
    IF context_id \notin DOMAIN contexts THEN Null
    ELSE LET payload == load_context(CurrentDb, context_id)
         IN  IF "working_memory" \notin DOMAIN payload THEN Null
             ELSE IF "active_mission" \notin DOMAIN payload.working_memory THEN Null
             ELSE payload.working_memory.active_mission

\* C33: after any sequence of lifecycle operations on empty contexts, the
\* mission that active_mission of either context names exists and has status
\* In Progress.
C33_ActiveMissionIsInProgress ==
    \A context_id \in ContextIds :
        ActiveMission(context_id) # Null =>
            \E i \in 1..Len(missions) :
                /\ missions[i].id = ActiveMission(context_id)
                /\ missions[i].status = "In Progress"

\* A started mission has been completed with an immediate promotion while
\* another mission was In Progress as well; the promoted one is active.
C33_Witness ==
    /\ last.ok /\ last.op = "complete" /\ "immediate" \in last.flags
    /\ ActiveMission("project_context") = last.next_mission
    /\ last.next_mission # Null
    /\ \E i \in 1..Len(missions) :
            missions[i].status = "In Progress" /\ missions[i].id # last.next_mission

\* The ids of the missions whose status is Blocked.
BlockedIds == {missions[i].id : i \in {i \in 1..Len(missions) : missions[i].status = "Blocked"}}

\* C34: after any sequence of lifecycle operations on empty contexts and a
\* store without Blocked mission, the missions whose status is Blocked are the
\* ids in blocked_missions of each context and the missions of the master's
\* blockers.
C34_BlockedSetsAgree ==
    /\ \A context_id \in ContextIds :
            {BlockedMissions(context_id)[k] : k \in 1..Len(BlockedMissions(context_id))}
                = BlockedIds
    /\ {Blockers[k].mission : k \in 1..Len(Blockers)} = BlockedIds

\* Two missions were blocked and one of them has been started again: the
\* other one is the only mission in each of the three sets.
C34_Witness ==
    /\ last.ok /\ last.op = "start" /\ last.prior = "Blocked"
    /\ Cardinality(BlockedIds) = 1
    /\ Len(Blockers) = 1

\* A field of a section of a stored context, or Null where it is missing.
FieldOf(context_id, section, field) ==
    LET payload == load_context(CurrentDb, context_id)
    IN  IF section \notin DOMAIN payload THEN Null
        ELSE IF field \notin DOMAIN payload[section] THEN Null
        ELSE payload[section][field]

\* Whether both contexts hold the field, and whether both do not.
BothHold(section, field) ==
    \A context_id \in ContextIds :
        /\ section \in DOMAIN load_context(CurrentDb, context_id)
        /\ field \in DOMAIN load_context(CurrentDb, context_id)[section]
NoneHolds(section, field) ==
    \A context_id \in ContextIds :
        \/ section \notin DOMAIN load_context(CurrentDb, context_id)
        \/ field \notin DOMAIN load_context(CurrentDb, context_id)[section]

\* C35: after any sequence of lifecycle operations on empty contexts the
\* project and the master context hold the same active_mission, session_count,
\* last_session, session_history and blocked_missions in working_memory, and
\* the same context_health.sessions_since_reset.
C35_ContextsAgreeOnWorkingMemory ==
    /\ \A field \in {"active_mission", "session_count", "last_session", "session_history",
                     "blocked_missions"} :
            \/ NoneHolds("working_memory", field)
            \/ /\ BothHold("working_memory", field)
               /\ FieldOf("project_context", "working_memory", field)
                    = FieldOf("master_context", "working_memory", field)
    /\ \/ NoneHolds("context_health", "sessions_since_reset")
       \/ /\ BothHold("context_health", "sessions_since_reset")
          /\ FieldOf("project_context", "context_health", "sessions_since_reset")
                = FieldOf("master_context", "context_health", "sessions_since_reset")

\* Three calls have committed, the last a block: both contexts count three
\* sessions and list the blocked mission.
C35_Witness ==
    /\ last.ok /\ last.op = "block"
    /\ FieldOf("project_context", "working_memory", "session_count") = 3
    /\ FieldOf("master_context", "working_memory", "blocked_missions") = <<last.mission>>
    /\ Len(FieldOf("master_context", "working_memory", "session_history")) = 3

\* The follow-up notes of a mission: its reminders, its resume notes and its
\* "Pick up" note.
NotesOf(mission_id) ==
    {ReminderText(mission_id, reason) : reason \in Reasons}
        \cup {NeedText(mission_id, needs[1]) : needs \in NeedLists \ {<<>>}}
        \cup {PickUpText(mission_id)}

\* C36: a successful start(a) or complete(a) leaves in the master's
\* important_reminders and when_we_resume every note of every other mission
\* that was there before the call.
C36_OtherMissionsNotesStay ==
    [][(last'.ok /\ last'.op \in {"start", "complete"}) =>
        \A i \in 1..Len(SeededIds) :
            SeededIds[i] # last'.mission =>
                \A note \in NotesOf(SeededIds[i]) :
                    SeqContains(MasterNotes, note) => SeqContains(MasterNotes', note)
      ]_vars

\* Whether the rows of one sequence are the first rows of the other, unchanged.
IsPrefix(old_rows, new_rows) ==
    /\ Len(old_rows) <= Len(new_rows)
    /\ \A i \in 1..Len(old_rows) : new_rows[i] = old_rows[i]

\* C37: from an empty store every successful lifecycle transition appends
\* exactly one snapshot row for project_context and exactly one for
\* master_context, and leaves every earlier snapshot row as it was; so each
\* context has as many snapshot rows as transitions have succeeded.
C37_OneSnapshotPerTransition ==
    /\ [][(last'.ok /\ last'.op \in LifecycleOps) =>
            \A id \in ContextIds :
                /\ Len(SnapshotsOf(id)') = Len(SnapshotsOf(id)) + 1
                /\ IsPrefix(SnapshotsOf(id), SnapshotsOf(id)')
                /\ IsPrefix(context_snapshots, context_snapshots')
         ]_vars
    /\ [](\A id \in ContextIds : Len(SnapshotsOf(id)) = Len(session_events))

\* Three transitions have succeeded within one second: each context has three
\* snapshot rows, all of the same created_at.
C37_Witness ==
    /\ last.ok /\ last.op \in LifecycleOps
    /\ Len(session_events) = 3
    /\ \A id \in ContextIds :
        /\ Len(SnapshotsOf(id)) = 3
        /\ SnapshotsOf(id)[1].created_at = SnapshotsOf(id)[3].created_at

\* The rows whose status a step changes.
StatusChanged == {i \in 1..Len(missions) : missions'[i].status # missions[i].status}

\* C38: a complete(m) changes the status of at most two missions, m and at
\* most one promoted mission; the promoted mission was Queued just before, is
\* not m (also when m was the oldest Queued mission), and becomes Current or
\* In Progress; no other mission's status changes.
C38_CompleteChangesAtMostTwo ==
    [][(last'.op = "complete") =>
        /\ Len(missions') = Len(missions)
        /\ Cardinality(StatusChanged) <= 2
        /\ last'.ok =>
            /\ Cardinality({i \in StatusChanged : missions[i].id # last'.mission}) <= 1
            /\ \A i \in StatusChanged :
                /\ missions'[i].id = missions[i].id
                /\ missions[i].id # last'.mission =>
                    /\ missions[i].status = "Queued"
                    /\ missions'[i].status \in {"Current", "In Progress"}
                    /\ missions[i].id = last'.next_mission
                /\ missions[i].id = last'.mission => missions'[i].status = "Completed"
        /\ ~last'.ok => StatusChanged = {}
      ]_vars

\* The oldest Queued mission has just been completed with promotion: it is
\* Completed, and the next Queued mission was promoted in its place.
C38_Witness ==
    /\ last.ok /\ last.op = "complete" /\ "promote_next" \in last.flags
    /\ last.mission = missions[1].id
    /\ last.prior = "Queued"
    /\ missions[1].status = "Completed"
    /\ last.next_mission = missions[2].id
    /\ missions[2].status \in {"Current", "In Progress"}

\* The snapshot row of the context that was inserted last, as <<row>>, or <<>>.
LastInserted(context_id) ==
    LET rows == SnapshotsOf(context_id)
    IN  IF rows = <<>> THEN <<>> ELSE <<rows[Len(rows)]>>

\* C39: a persist with snapshot skips the payload if and only if its hash is
\* the hash of the snapshot row inserted last for that context id, also when
\* several rows of the context share one created_at.
C39_GateComparesWithLastInserted ==
    [][(last'.op = "set_context" /\ last'.ok /\ last'.snapshot) =>
        (~last'.appended <=>
            /\ LastInserted(last'.context_id) # <<>>
            /\ LastInserted(last'.context_id)[1].content_hash = Digest(last'.payload))
      ]_vars

\* C40: merging the old list again with the result M of a session merge
\* returns M: the same entries in the same order.
C40_SessionMergeIsIdempotent ==
    (last.op = "merge_sessions" /\ last.ok) =>
        merge_sessions(last.old_entries, last.merged_entries)
            = Returned(last.merged_entries)

\* A merge of two lists that share a key and were read from lines json.dumps
\* would not give: the result is in another order than the lists were, and
\* its entries carry a text of their own.
C40_Witness ==
    /\ last.op = "merge_sessions" /\ last.ok
    /\ Len(last.old_entries) = 2 /\ Len(last.new_entries) = 2
    /\ last.old_entries[1].raw = "line"
    /\ Len(last.merged_entries) = 3
    /\ SansRaw(last.merged_entries[1]) = SansRaw(last.old_entries[2])
    /\ SansRaw(last.merged_entries[3]) = SansRaw(last.new_entries[1])
====
